---- MODULE Spec2Model ----
(***************************************************************************)
(* Verification model of the CodeMoss bridge: the host-side supervisor of  *)
(* the ai-bridge child process (BridgeManager), the ai-bridge message      *)
(* router and streaming handler (server.js), and the provider store.       *)
(*                                                                         *)
(* The module holds several specifications over one set of variables; each *)
(* specification drives one subsystem and leaves the others at their       *)
(* initial value.                                                          *)
(***************************************************************************)
EXTENDS Integers, Sequences, FiniteSets, TLC

(***************************************************************************)
(* Bounds of the model                                                     *)
(***************************************************************************)
\* number of child processes the supervisor may spawn in one behaviour
MaxProcs == 4
\* number of restart timers that may be pending at once
MaxTimers == 2
\* number of times the error notification may be shown in one behaviour
MaxErrors == 2

(***************************************************************************)
(* BridgeManager (host side supervisor)                                    *)
(***************************************************************************)
VARIABLES
  _process,        \* BridgeManager._process: 0 is null, else the child handle
  _isRunning,      \* BridgeManager._isRunning
  _restartCount,   \* BridgeManager._restartCount
  procState,       \* per child: "unborn", "alive", "killed" (exit event pending), "dead"
  spawnCount,      \* number of children spawned so far (the last handle)
  timers,          \* pending setTimeout(() => this.start(), delay): sequence of delays
  errorShown,      \* number of showErrorMessage('... failed to start ...') calls
  \* history of the run, for the properties
  suppressed,      \* stop() was called and neither start() nor restart() since
  spawnsAtStop,    \* spawnCount when stop() was last called
  crashes,         \* consecutive non-zero exits since the last explicit call or clean exit
  crashDelays,     \* delays of the restarts scheduled for those exits, in order
  lastAct          \* name of the last supervisor step

supVars == << _process, _isRunning, _restartCount, procState, spawnCount, timers,
              errorShown, suppressed, spawnsAtStop, crashes, crashDelays, lastAct >>

(***************************************************************************)
(* ai-bridge server (server.js): console.log, stdout and the sendMessage   *)
(* requests in flight                                                      *)
(***************************************************************************)
VARIABLES
  consoleLog,      \* console.log: 0 is the original stdout writer, r the interceptor
                   \* installed by request r
  stdout,          \* the lines written to the real stdout, in order
  pc,              \* per request: "new", "claude" / "codex" (awaiting the SDK call),
                   \* "done" (handler returned), "failed" (the SDK call threw)
  kind,            \* per request: "none", "send" (sendMessage) or "quick" (any other type)
  saved,           \* per request: originalConsoleLog captured by handleSendMessage
  bufferedContent, \* per request: fragments buffered in non-streaming mode
  capturedStructuredError, \* per request
  structuredErrorEmitted,  \* per request
  produced,        \* per request: markers of the lines its SDK call has printed, in order
  streamingEnabled, \* settings.streamingEnabled !== false
  thinkingEnabled   \* settings.thinkingEnabled !== false

strVars == << consoleLog, stdout, pc, kind, saved, bufferedContent,
              capturedStructuredError, structuredErrorEmitted, produced,
              streamingEnabled, thinkingEnabled >>

(***************************************************************************)
(* BridgeManager: framing of the child's stdout (_handleData)              *)
(***************************************************************************)
VARIABLES
  childOut,         \* the bytes the child wrote to its stdout, the whole stream
  wire,             \* the bytes of childOut not yet delivered in a 'data' callback
  _messageBuffer,   \* BridgeManager._messageBuffer, a string (sequence of characters)
  events            \* payloads of the 'message' events emitted, in order

frVars == << childOut, wire, _messageBuffer, events >>

(***************************************************************************)
(* Message routing (MessageRouter.route, handleMessage) and the provider   *)
(* files the bridge owns                                                   *)
(***************************************************************************)
VARIABLES
  codemossConfig,      \* CODEMOSS_CONFIG_FILE: the claude section, [current, providers]
  codexConfig,         \* CODEMOSS_CONFIG_FILE: the codex section, [current, providers]
  codemossSettings,    \* SETTINGS_FILE: [activeClaudeProviderId, activeCodexProvider]
  providersFile,       \* PROVIDERS_FILE: the legacy list of providers
  codexProvidersFile,  \* CODEX_PROVIDERS_FILE: the legacy list of Codex providers
  serverStarted,       \* the module body of server.js has run (migration included)
  atStart,             \* the files as the process found them, until the first line
                       \* is handled; from then on the files themselves
  claudeSettingsFile,  \* CLAUDE_SETTINGS_FILE: << >> when missing, else << document >>
  claudeJson,          \* CLAUDE_JSON_FILE: << >> when missing, else << document >>
  configMcpServers,    \* CODEMOSS_CONFIG_FILE: mcpServers, << >> or << array >>
  legacyMcpServers,    \* mcp-servers.json: the array servers
  codexConfigToml,     \* CODEX_CONFIG_FILE: << >> when missing, else << lines >>
  skillDirs,           \* per scope, the entries of the active and of the management directory
  lastOut,             \* the envelopes written while the last message was handled
  lastReq,             \* the last message handled: [type, requestId, id], whether id
                       \* was the active provider of its family before it, the
                       \* enabled value reported for the MCP server id before it, the
                       \* skill it names and what the file system did to its calls
  lastThrew,           \* a handler threw while the last message was handled
  crashed,             \* the bridge process died of an unhandled rejection
  merged,              \* << base, patch >> when the last message wrote CLAUDE_SETTINGS_FILE
  _webview,            \* MessageRouter._webview is set
  stdin,               \* lines written to a child's stdin and not read yet
  routed,              \* number of messages handed to MessageRouter.route
  replied              \* requestIds for which some outbound envelope exists

mcpFileVars == << claudeJson, configMcpServers, legacyMcpServers, codexConfigToml >>

fileVars == << codemossConfig, codexConfig, codemossSettings, providersFile,
               codexProvidersFile, claudeSettingsFile, mcpFileVars, skillDirs,
               serverStarted, atStart >>

rtVars == << fileVars,
             lastOut, lastReq, lastThrew, crashed, merged,
             _webview, stdin, routed, replied >>

(***************************************************************************)
(* Functions of the bridge that are checked on their own: the arguments    *)
(* of one call and what the call returned                                  *)
(***************************************************************************)
VARIABLES
  applied,   \* name of the function applied last, "" before any call
  args,      \* the arguments of the call
  returned   \* what the last function applied returned

fnVars == << applied, args, returned >>

(***************************************************************************)
(* The agents of the bridge: agent.json, the older agents.json, and the    *)
(* last agent message with the envelopes its handler sent                  *)
(***************************************************************************)
VARIABLES
  agentFile,          \* AGENT_FILE: << >> while it does not exist, else << config >>
  legacyAgentsFile,   \* LEGACY_AGENTS_FILE, likewise
  agentReq,           \* the agent message handled last
  agentOut            \* the envelopes its handler sent, in order

agVars == << agentFile, legacyAgentsFile, agentReq, agentOut >>

vars == << supVars, strVars, frVars, rtVars, fnVars, agVars >>

\* an absent or undefined id
NoId == [t |-> "undefined", v |-> ""]

\* no agent file exists and no agent message was handled
AgIdle ==
  /\ agentFile = << >>
  /\ legacyAgentsFile = << >>
  /\ agentReq = [type |-> "", id |-> NoId, requestId |-> 0]
  /\ agentOut = << >>

\* no function has been called
FnIdle ==
  /\ applied = ""
  /\ args = << >>
  /\ returned = << >>

\* number of requests the bridge receives in one behaviour
MaxReqs == 3
\* number of lines the SDK calls print in one behaviour
MaxOutputs == 1

Reqs == 1..MaxReqs

\* the bridge before any message: console.log is the original, nothing written
StrIdle ==
  /\ consoleLog = 0
  /\ stdout = << >>
  /\ pc = [r \in Reqs |-> "new"]
  /\ kind = [r \in Reqs |-> "none"]
  /\ saved = [r \in Reqs |-> 0]
  /\ bufferedContent = [r \in Reqs |-> << >>]
  /\ capturedStructuredError = [r \in Reqs |-> FALSE]
  /\ structuredErrorEmitted = [r \in Reqs |-> FALSE]
  /\ produced = [r \in Reqs |-> << >>]
  /\ streamingEnabled = TRUE
  /\ thinkingEnabled = TRUE

\* number of bytes the child writes to its stdout in one behaviour
MaxBytes == 5

\* the supervisor before any data arrived
FrIdle ==
  /\ childOut = << >>
  /\ wire = << >>
  /\ _messageBuffer = << >>
  /\ events = << >>

\* number of messages of one behaviour that carry a requestId of their own
MaxMsgs == 2

\* the id of the native entry
LocalProviderId == "__local_settings_json__"

\* a JSON object without keys
EmptyDoc == [key \in {} |-> "v1"]

\* a fresh installation: no config file, no settings file, no provider list
\* a key of a JSON object that is absent (or holds no string)
Missing == "<missing>"

\* no MCP server is configured anywhere
McpIdle ==
  /\ claudeJson = << >>
  /\ configMcpServers = << >>
  /\ legacyMcpServers = << >>
  /\ codexConfigToml = << >>

\* no skill is installed in either scope
NoSkills == [scope \in {"global", "local"} |-> [active |-> EmptyDoc, management |-> EmptyDoc]]

SkillsIdle == skillDirs = NoSkills

FilesInit ==
  /\ codemossConfig = [current |-> "", providers |-> EmptyDoc]
  /\ codexConfig = [current |-> Missing, providers |-> EmptyDoc]
  /\ codemossSettings = [activeClaudeProviderId |-> "", activeCodexProvider |-> ""]
  /\ providersFile = << >>
  /\ codexProvidersFile = << >>
  /\ McpIdle
  /\ SkillsIdle

\* the bridge and the router before any message
PlumbingInit ==
  /\ lastOut = << >>
  /\ lastReq = [type |-> "", requestId |-> 0, id |-> "", wasActive |-> FALSE,
                wasEnabled |-> "none", skill |-> [name |-> "", scope |-> "", enabled |-> FALSE],
                fault |-> [op |-> "none", after |-> 0]]
  /\ lastThrew = FALSE
  /\ crashed = FALSE
  /\ merged = << >>
  /\ _webview = FALSE
  /\ stdin = << >>
  /\ routed = 0
  /\ replied = {}

\* the files as one value
Files == [config |-> codemossConfig, codex |-> codexConfig, settings |-> codemossSettings,
          legacy |-> providersFile, codexLegacy |-> codexProvidersFile,
          claude |-> claudeSettingsFile, claudeJson |-> claudeJson,
          mcpServers |-> configMcpServers, legacyMcp |-> legacyMcpServers,
          toml |-> codexConfigToml, skills |-> skillDirs]

\* the process is up: on a fresh installation the migration found nothing to do
Started == serverStarted = TRUE /\ atStart = Files

RtIdle == FilesInit /\ PlumbingInit /\ claudeSettingsFile = << >> /\ Started

\* BridgeManager._maxRestarts
_maxRestarts == 3
\* the unit of the restart delay, in milliseconds
DelayUnit == 1000

Procs == 1..MaxProcs
\* exit codes of the 'exit' event: 0 clean, 1 any non-zero code, -1 null (killed by signal)
ExitNull == -1

SupInit ==
  /\ _process = 0
  /\ _isRunning = FALSE
  /\ _restartCount = 0
  /\ procState = [p \in Procs |-> "unborn"]
  /\ spawnCount = 0
  /\ timers = << >>
  /\ errorShown = 0
  /\ suppressed = FALSE
  /\ spawnsAtStop = 0
  /\ crashes = 0
  /\ crashDelays = << >>
  /\ lastAct = "init"

\* the variables a supervisor step leaves alone
supOthers == << strVars, frVars, rtVars, fnVars, agVars >>

\* start(): returns early when running; otherwise spawns a child, attaches the
\* listeners, sets _isRunning and resets _restartCount
startBody ==
  IF _isRunning
    THEN UNCHANGED << _process, _isRunning, _restartCount, procState, spawnCount >>
    ELSE /\ spawnCount < MaxProcs
         /\ spawnCount' = spawnCount + 1
         /\ procState' = [procState EXCEPT ![spawnCount + 1] = "alive"]
         /\ _process' = spawnCount + 1
         /\ _isRunning' = TRUE
         /\ _restartCount' = 0

\* the host calls start()
Start ==
  /\ startBody
  /\ suppressed' = FALSE
  /\ crashes' = 0
  /\ crashDelays' = << >>
  /\ lastAct' = "start"
  /\ UNCHANGED << timers, errorShown, spawnsAtStop >>
  /\ UNCHANGED supOthers

\* kill() on a child handle: a live child receives the signal, its exit event follows
kill(ps, p) ==
  IF ps[p] = "alive" THEN [ps EXCEPT ![p] = "killed"] ELSE ps

\* the host calls stop()
Stop ==
  /\ IF _process # 0
       THEN /\ _restartCount' = _maxRestarts
            /\ procState' = kill(procState, _process)
            /\ _process' = 0
            /\ _isRunning' = FALSE
       ELSE UNCHANGED << _process, _isRunning, _restartCount, procState >>
  /\ suppressed' = TRUE
  /\ spawnsAtStop' = spawnCount
  /\ crashes' = 0
  /\ crashDelays' = << >>
  /\ lastAct' = "stop"
  /\ UNCHANGED << spawnCount, timers, errorShown >>
  /\ UNCHANGED supOthers

\* the host calls restart(): stop(), _restartCount = 0, start(); start() sees the
\* _isRunning that stop() left
Restart ==
  /\ LET runningAfterStop == IF _process # 0 THEN FALSE ELSE _isRunning
         stateAfterStop == IF _process # 0 THEN kill(procState, _process) ELSE procState
     IN IF runningAfterStop
          THEN /\ _restartCount' = 0
               /\ UNCHANGED << _process, _isRunning, procState, spawnCount >>
          ELSE /\ spawnCount < MaxProcs
               /\ spawnCount' = spawnCount + 1
               /\ procState' = [stateAfterStop EXCEPT ![spawnCount + 1] = "alive"]
               /\ _process' = spawnCount + 1
               /\ _isRunning' = TRUE
               /\ _restartCount' = 0
  /\ suppressed' = FALSE
  /\ crashes' = 0
  /\ crashDelays' = << >>
  /\ lastAct' = "restart"
  /\ UNCHANGED << timers, errorShown, spawnsAtStop >>
  /\ UNCHANGED supOthers

\* the delay of the restart scheduled by the exit handler
restartDelay(count) == DelayUnit * count

\* the 'exit' listener of child p runs with the given code
exitHandler(p, code) ==
  /\ procState' = [procState EXCEPT ![p] = "dead"]
  /\ _isRunning' = FALSE
  /\ IF code # 0 /\ _restartCount < _maxRestarts
       THEN /\ Len(timers) < MaxTimers
            /\ _restartCount' = _restartCount + 1
            /\ timers' = Append(timers, restartDelay(_restartCount + 1))
            /\ UNCHANGED errorShown
       ELSE IF _restartCount >= _maxRestarts
         THEN /\ errorShown < MaxErrors
              /\ errorShown' = errorShown + 1
              /\ UNCHANGED << _restartCount, timers >>
         ELSE UNCHANGED << _restartCount, timers, errorShown >>
  /\ UNCHANGED << _process, spawnCount >>

\* a live child exits on its own with code 0 or with a non-zero code
ChildExit ==
  \E p \in Procs, code \in {0, 1} :
    /\ procState[p] = "alive"
    /\ exitHandler(p, code)
    /\ crashes' = IF code # 0 THEN crashes + 1 ELSE 0
    /\ crashDelays' = IF code = 0 THEN << >>
                      ELSE IF timers' # timers THEN Append(crashDelays, timers'[Len(timers')])
                      ELSE crashDelays
    /\ lastAct' = "exit"
    /\ UNCHANGED << suppressed, spawnsAtStop >>
    /\ UNCHANGED supOthers

\* the exit event of a killed child is delivered: code is null
KilledExit ==
  \E p \in Procs :
    /\ procState[p] = "killed"
    /\ exitHandler(p, ExitNull)
    /\ lastAct' = "killedExit"
    /\ UNCHANGED << suppressed, spawnsAtStop, crashes, crashDelays >>
    /\ UNCHANGED supOthers

\* a pending restart timer fires and calls this.start()
removeAt(s, i) == [j \in 1..(Len(s) - 1) |-> IF j < i THEN s[j] ELSE s[j + 1]]

TimerFire ==
  \E i \in 1..Len(timers) :
    /\ timers' = removeAt(timers, i)
    /\ startBody
    /\ lastAct' = "timer"
    /\ UNCHANGED << errorShown, suppressed, spawnsAtStop, crashes, crashDelays >>
    /\ UNCHANGED supOthers

SupNext == Start \/ Stop \/ Restart \/ ChildExit \/ KilledExit \/ TimerFire

InitSupervisor == SupInit /\ StrIdle /\ FrIdle /\ RtIdle /\ FnIdle /\ AgIdle

SpecSupervisor == InitSupervisor /\ [][SupNext]_vars

(***************************************************************************)
(* Properties of the supervisor                                            *)
(***************************************************************************)
IsStrictlyIncreasing(s) == \A i \in 1..(Len(s) - 1) : s[i] < s[i + 1]

\* C1: after N consecutive non-zero exits (N up to _maxRestarts) exactly N restarts
\* were scheduled, each with a strictly larger delay than the one before; beyond
\* _maxRestarts the error is shown and no restart is scheduled.
C1_RestartPolicy ==
  /\ crashes <= _maxRestarts => Len(crashDelays) = crashes
  /\ IsStrictlyIncreasing(crashDelays)
  /\ Len(crashDelays) <= _maxRestarts
  /\ crashes > _maxRestarts => (errorShown > 0 /\ timers = << >>)

\* C2: once stop() has run, no child is spawned until start() or restart() is called
C2_StopSuppressesRestart == suppressed => spawnCount = spawnsAtStop

(***************************************************************************)
(* ai-bridge server: sendToHost, the console.log interceptor and           *)
(* handleSendMessage                                                       *)
(***************************************************************************)
\* the variables a bridge step leaves alone
strOthers == << supVars, frVars, rtVars, fnVars, agVars >>

\* markers of the lines the Claude channel prints through console.log
DeltaMarkers == {"CONTENT_DELTA", "THINKING_DELTA"}
SdkMarkers == {"CONTENT_DELTA", "CONTENT", "THINKING_DELTA", "THINKING", "MESSAGE",
               "ERRJSON", "OTHER"}

\* a line of JSON.stringify({type, content, requestId}); frags are the SDK
\* fragments its content carries, each << request that produced it, index >>
Envelope(type, frags, requestId) ==
  [k |-> "env", type |-> type, rid |-> requestId, frags |-> frags]

\* a line printed by the SDK call of request src: its n-th line, with a marker
SdkLine(marker, src, n) ==
  [k |-> "sdk", type |-> marker, rid |-> 0, frags |-> << << src, n >> >>]

\* the part of the bridge a console.log call changes
LogState == [out |-> stdout, buf |-> bufferedContent,
             cap |-> capturedStructuredError, emitted |-> structuredErrorEmitted]

\* console.log(line) where console.log is `target`, while the global console.log
\* is `cl`: the original writer appends to stdout; the interceptor of request r
\* runs the branches of handleSendMessage's interceptor, whose sendToHost calls
\* go through the global console.log again
RECURSIVE logVia(_, _, _, _)
logVia(cl, target, line, st) ==
  IF target = 0
    THEN [st EXCEPT !.out = Append(@, line)]
  ELSE IF line.k = "env"
    \* output.startsWith('{') and typeof maybeJson.type === 'string':
    \* originalConsoleLog(output)
    THEN logVia(cl, saved[target], line, st)
  ELSE IF line.type = "CONTENT_DELTA"
    THEN logVia(cl, cl, Envelope("streamChunk", line.frags, target), st)
  ELSE IF line.type = "CONTENT"
    THEN IF streamingEnabled
           THEN logVia(cl, cl, Envelope("streamChunk", line.frags, target), st)
           ELSE [st EXCEPT !.buf[target] = @ \o line.frags]
  ELSE IF line.type \in {"THINKING_DELTA", "THINKING"}
    THEN IF ~thinkingEnabled
           THEN st
           ELSE logVia(cl, cl, Envelope("thinkingChunk", line.frags, target), st)
  ELSE IF line.type = "MESSAGE"
    THEN LET sent == logVia(cl, cl, Envelope("messageUpdate", << >>, target), st)
         IN IF ~streamingEnabled
              THEN [sent EXCEPT !.buf[target] = @ \o line.frags]
              ELSE sent
  ELSE IF line.type = "ERRJSON"
    THEN LET noted == [st EXCEPT !.cap[target] = TRUE, !.emitted[target] = TRUE]
         IN IF ~st.emitted[target]
              THEN logVia(cl, cl, Envelope("streamChunk", << >>, target), noted)
              ELSE noted
  ELSE st

\* sendToHost(type, content, requestId): console.log(JSON.stringify(...))
sendToHost(cl, type, frags, requestId, st) ==
  logVia(cl, cl, Envelope(type, frags, requestId), st)

\* the bridge state after a console.log call returned st
setLogState(st) ==
  /\ stdout' = st.out
  /\ bufferedContent' = st.buf
  /\ capturedStructuredError' = st.cap
  /\ structuredErrorEmitted' = st.emitted

\* the lines of the SDK calls printed so far
totalOutputs == LET RECURSIVE sum(_)
                    sum(r) == IF r = 0 THEN 0 ELSE Len(produced[r]) + sum(r - 1)
                IN sum(MaxReqs)

\* the streamChunk whose delta is the text that tells how to install the SDK
RemediationChunk(requestId) ==
  [k |-> "env", type |-> "streamChunk", rid |-> requestId, frags |-> << >>,
   delta |-> "remediation"]

\* a plausible defect: the branch for a missing SDK sends nothing
sdkMissingSilent(cl, requestId, st) == st

\* the last branch of handleSendMessage, taken when the SDK of the provider is
\* not installed: one streamChunk with the instructions
sdkMissing(cl, requestId, st) == logVia(cl, cl, RemediationChunk(requestId), st)

\* handleMessage({type: 'sendMessage'}) up to the await of the SDK call:
\* streamStart, then the Claude branch installs the interceptor, the Codex branch
\* awaits the Codex call, and the last branch reports the missing SDK and ends
SendMessageStart ==
  \E r \in Reqs, provider \in {"claude", "codex"}, sdkAvailable \in BOOLEAN :
    /\ pc[r] = "new"
    /\ \A q \in Reqs : q < r => pc[q] # "new"
    /\ kind' = [kind EXCEPT ![r] = "send"]
    /\ saved' = [saved EXCEPT ![r] = consoleLog]
    /\ LET started == sendToHost(consoleLog, "streamStart", << >>, r, LogState)
       IN IF sdkAvailable
            THEN /\ setLogState(started)
                 /\ pc' = [pc EXCEPT ![r] = provider]
                 /\ consoleLog' = IF provider = "claude" THEN r ELSE consoleLog
            ELSE /\ setLogState(
                      sendToHost(consoleLog, "streamEnd", << >>, r,
                        sdkMissing(consoleLog, r, started)))
                 /\ pc' = [pc EXCEPT ![r] = "done"]
                 /\ UNCHANGED consoleLog
    /\ UNCHANGED << produced, streamingEnabled, thinkingEnabled >>
    /\ UNCHANGED strOthers

\* the Claude SDK call of request r prints a line through console.log; delta
\* markers are printed only when the request asked for streaming
SdkOutput ==
  \E r \in Reqs, marker \in SdkMarkers :
    /\ pc[r] = "claude"
    /\ totalOutputs < MaxOutputs
    /\ marker \in DeltaMarkers => streamingEnabled
    /\ produced' = [produced EXCEPT ![r] = Append(@, marker)]
    /\ setLogState(logVia(consoleLog, consoleLog,
                          SdkLine(marker, r, Len(produced[r]) + 1), LogState))
    /\ UNCHANGED << consoleLog, pc, kind, saved, streamingEnabled, thinkingEnabled >>
    /\ UNCHANGED strOthers

\* handleClaudeCommand resolves: restoreConsoleLog, flush of the buffered
\* content in non-streaming mode, streamEnd
SdkReturn ==
  \E r \in Reqs :
    /\ pc[r] = "claude"
    /\ consoleLog' = saved[r]
    /\ LET flushed ==
             IF ~streamingEnabled /\ bufferedContent[r] # << >>
               THEN sendToHost(saved[r], "streamChunk", bufferedContent[r], r, LogState)
             ELSE IF ~streamingEnabled /\ capturedStructuredError[r]
                     /\ ~structuredErrorEmitted[r]
               THEN sendToHost(saved[r], "streamChunk", << >>, r, LogState)
             ELSE LogState
       IN setLogState(sendToHost(saved[r], "streamEnd", << >>, r, flushed))
    /\ pc' = [pc EXCEPT ![r] = "done"]
    /\ UNCHANGED << kind, saved, produced, streamingEnabled, thinkingEnabled >>
    /\ UNCHANGED strOthers

\* handleCodexCommand resolves: streamEnd
CodexReturn ==
  \E r \in Reqs :
    /\ pc[r] = "codex"
    /\ setLogState(sendToHost(consoleLog, "streamEnd", << >>, r, LogState))
    /\ pc' = [pc EXCEPT ![r] = "done"]
    /\ UNCHANGED << consoleLog, kind, saved, produced, streamingEnabled, thinkingEnabled >>
    /\ UNCHANGED strOthers

\* the SDK call rejects: the catch restores console.log, sends the error as a
\* chunk, and streamEnd follows
SdkThrow ==
  \E r \in Reqs :
    /\ pc[r] \in {"claude", "codex"}
    /\ consoleLog' = saved[r]
    /\ setLogState(
         sendToHost(saved[r], "streamEnd", << >>, r,
           sendToHost(saved[r], "streamChunk", << >>, r, LogState)))
    /\ pc' = [pc EXCEPT ![r] = "failed"]
    /\ UNCHANGED << kind, saved, produced, streamingEnabled, thinkingEnabled >>
    /\ UNCHANGED strOthers

\* any synchronous handler (here handleGetSettings) replies with one envelope
QuickRequest ==
  \E r \in Reqs :
    /\ pc[r] = "new"
    /\ \A q \in Reqs : q < r => pc[q] # "new"
    /\ kind' = [kind EXCEPT ![r] = "quick"]
    /\ setLogState(sendToHost(consoleLog, "settingsLoaded", << >>, r, LogState))
    /\ pc' = [pc EXCEPT ![r] = "done"]
    /\ UNCHANGED << consoleLog, saved, produced, streamingEnabled, thinkingEnabled >>
    /\ UNCHANGED strOthers

\* the bridge starts with the settings file in any state
StrInit ==
  /\ consoleLog = 0
  /\ stdout = << >>
  /\ pc = [r \in Reqs |-> "new"]
  /\ kind = [r \in Reqs |-> "none"]
  /\ saved = [r \in Reqs |-> 0]
  /\ bufferedContent = [r \in Reqs |-> << >>]
  /\ capturedStructuredError = [r \in Reqs |-> FALSE]
  /\ structuredErrorEmitted = [r \in Reqs |-> FALSE]
  /\ produced = [r \in Reqs |-> << >>]
  /\ streamingEnabled \in BOOLEAN
  /\ thinkingEnabled \in BOOLEAN

StrNext == SendMessageStart \/ SdkOutput \/ SdkReturn \/ CodexReturn \/ SdkThrow
             \/ QuickRequest

InitStream == SupInit /\ StrInit /\ FrIdle /\ RtIdle /\ FnIdle /\ AgIdle

SpecStream == InitStream /\ [][StrNext]_vars

(***************************************************************************)
(* Properties of the streaming handler                                     *)
(***************************************************************************)
\* what the host receives: BridgeManager._handleData passes on the lines that are
\* JSON envelopes and drops every other line as diagnostic text
hostEvents == SelectSeq(stdout, LAMBDA l : l.k = "env")

\* the types of the envelopes the host received for request r, in order
typesOf(r) ==
  LET mine == SelectSeq(hostEvents, LAMBDA l : l.rid = r)
  IN [i \in 1..Len(mine) |-> mine[i].type]

countOf(s, t) == Cardinality({i \in 1..Len(s) : s[i] = t})

\* C3: for every sendMessage request the envelopes of its requestId are one
\* streamStart, then chunks, then one streamEnd, and nothing after the streamEnd.
C3_StreamShape ==
  \A r \in Reqs :
    kind[r] = "send" =>
      LET ts == typesOf(r)
      IN /\ ts # << >> /\ ts[1] = "streamStart"
         /\ countOf(ts, "streamStart") = 1
         /\ countOf(ts, "streamEnd") <= 1
         /\ \A i \in 1..Len(ts) : ts[i] = "streamEnd" => i = Len(ts)
         /\ pc[r] \in {"done", "failed"} => ts[Len(ts)] = "streamEnd"

\* C4: every envelope that carries an SDK fragment has the requestId of the
\* request whose SDK call produced the fragment.
C4_ChunkCarriesOwnRequestId ==
  \A i \in 1..Len(hostEvents) :
    \A j \in 1..Len(hostEvents[i].frags) :
      hostEvents[i].frags[j][1] = hostEvents[i].rid

\* the fragments request r's SDK call printed that its settings turn into
\* content of streamChunk envelopes, in production order
contentMarkers == IF streamingEnabled THEN {"CONTENT_DELTA", "CONTENT"}
                  ELSE {"CONTENT", "MESSAGE"}

RECURSIVE flatten(_)
flatten(ss) == IF ss = << >> THEN << >> ELSE Head(ss) \o flatten(Tail(ss))

producedContent(r) ==
  LET idx == SelectSeq([i \in 1..Len(produced[r]) |-> i],
                       LAMBDA i : produced[r][i] \in contentMarkers)
  IN [i \in 1..Len(idx) |-> << r, idx[i] >>]

\* the fragments the host received in streamChunk envelopes of requestId r
deliveredContent(r) ==
  LET mine == SelectSeq(hostEvents, LAMBDA l : l.rid = r /\ l.type = "streamChunk")
  IN flatten([i \in 1..Len(mine) |-> mine[i].frags])

\* C5: when the SDK call of a sendMessage request has returned, the host has
\* received the content fragments of that request, all of them and in production
\* order, under its requestId.
C5_ChunksInOrderNoneDropped ==
  \A r \in Reqs :
    (kind[r] = "send" /\ pc[r] = "done") =>
      deliveredContent(r) = producedContent(r)

(***************************************************************************)
(* BridgeManager._handleData: newline-delimited JSON over the child's      *)
(* stdout.  Bytes: the ASCII characters "{", "}", "x" (any other ASCII     *)
(* character of a JSON body), "e" (a body character that makes the         *)
(* envelope's type 'error'), " ", "\n", and the two bytes "H" "L" of one   *)
(* two-byte UTF-8 character, written "U" once decoded.  "?" is U+FFFD.     *)
(***************************************************************************)
frOthers == << supVars, strVars, rtVars, fnVars, agVars >>

Bytes == {"{", "}", "x", "e", " ", "\n", "H", "L"}

\* the child writes text: every lead byte is followed by its continuation byte
RECURSIVE IsUtf8(_)
IsUtf8(bs) ==
  IF bs = << >> THEN TRUE
  ELSE IF Head(bs) = "H" THEN Len(bs) >= 2 /\ bs[2] = "L" /\ IsUtf8(Tail(Tail(bs)))
  ELSE Head(bs) # "L" /\ IsUtf8(Tail(bs))

\* Buffer.toString(): UTF-8 decoding of one chunk on its own; a lead byte without
\* its continuation and a continuation without its lead become U+FFFD
RECURSIVE toString(_)
toString(bs) ==
  IF bs = << >> THEN << >>
  ELSE IF Head(bs) = "H"
    THEN IF Len(bs) >= 2 /\ bs[2] = "L"
           THEN << "U" >> \o toString(Tail(Tail(bs)))
           ELSE << "?" >> \o toString(Tail(bs))
  ELSE IF Head(bs) = "L" THEN << "?" >> \o toString(Tail(bs))
  ELSE << Head(bs) >> \o toString(Tail(bs))

\* String.prototype.split('\n'): the pieces between newlines, at least one piece
RECURSIVE splitNewline(_, _)
splitNewline(str, cur) ==
  IF str = << >> THEN << cur >>
  ELSE IF Head(str) = "\n" THEN << cur >> \o splitNewline(Tail(str), << >>)
  ELSE splitNewline(Tail(str), Append(cur, Head(str)))

\* String.prototype.trim()
RECURSIVE trimStart(_)
trimStart(str) ==
  IF str # << >> /\ Head(str) = " " THEN trimStart(Tail(str)) ELSE str

RECURSIVE trimEnd(_)
trimEnd(str) ==
  IF str # << >> /\ str[Len(str)] = " " THEN trimEnd(SubSeq(str, 1, Len(str) - 1)) ELSE str

trim(str) == trimEnd(trimStart(str))

\* JSON.parse succeeds on a text that is, between optional white space, one
\* object: "{", a body without braces, "}"
parses(str) ==
  LET t == trim(str)
  IN /\ Len(t) >= 2
     /\ t[1] = "{"
     /\ t[Len(t)] = "}"
     /\ \A i \in 2..(Len(t) - 1) : t[i] \notin {"{", "}"}

\* the body of the parsed object: what the message carries
parse(str) == LET t == trim(str) IN SubSeq(t, 2, Len(t) - 1)

\* the listeners registered on the BridgeManager are those of 'message' and
\* 'fileOperation': none for the event name 'error'
hasErrorListener == FALSE

\* message.type of a parsed envelope
typeOfBody(body) == IF \E i \in 1..Len(body) : body[i] = "e" THEN "error" ELSE "other"

\* _handleMessage: emit(message.type, message) throws for the event name 'error'
\* without a listener, and the catch of _handleData swallows it before
\* emit('message', message) runs
_handleMessage(evs, body, errListener) ==
  IF typeOfBody(body) = "error" /\ ~errListener THEN evs ELSE Append(evs, body)

\* the loop of _handleData over the complete lines
RECURSIVE handleLines(_, _, _)
handleLines(lines, evs, errListener) ==
  IF lines = << >> THEN evs
  ELSE LET line == Head(lines)
           next == IF trim(line) # << >> /\ trim(line)[1] = "{" /\ parses(line)
                     THEN _handleMessage(evs, parse(line), errListener)
                     ELSE evs
       IN handleLines(Tail(lines), next, errListener)

\* _handleData(data): the new buffer and the events after it
_handleData(buffer, data, evs, errListener) ==
  LET pieces == splitNewline(buffer \o data, << >>)
      n == Len(pieces)
  IN [buffer |-> pieces[n],
      events |-> handleLines(SubSeq(pieces, 1, n - 1), evs, errListener)]

\* the child has written some text; nothing is delivered yet
FrInit ==
  /\ childOut \in { bs \in UNION {[1..n -> Bytes] : n \in 0..MaxBytes} : IsUtf8(bs) }
  /\ wire = childOut
  /\ _messageBuffer = << >>
  /\ events = << >>

\* stdout.on('data'): the next k bytes arrive in one callback
DataCallback ==
  \E k \in 1..Len(wire) :
    LET r == _handleData(_messageBuffer, toString(SubSeq(wire, 1, k)), events,
                         hasErrorListener)
    IN /\ wire' = SubSeq(wire, k + 1, Len(wire))
       /\ _messageBuffer' = r.buffer
       /\ events' = r.events
       /\ UNCHANGED childOut
       /\ UNCHANGED frOthers

FrNext == DataCallback

InitFraming == SupInit /\ StrIdle /\ FrInit /\ RtIdle /\ FnIdle /\ AgIdle

SpecFraming == InitFraming /\ [][FrNext]_vars

\* what the claim expects of a stream: one event per complete line that begins
\* with "{" (white space before it not counted) and parses, in stream order
RECURSIVE expectedOfLines(_)
expectedOfLines(lines) ==
  IF lines = << >> THEN << >>
  ELSE LET line == Head(lines)
       IN (IF parses(line) THEN << parse(line) >> ELSE << >>)
            \o expectedOfLines(Tail(lines))

expectedEvents(bs) ==
  LET pieces == splitNewline(toString(bs), << >>)
  IN expectedOfLines(SubSeq(pieces, 1, Len(pieces) - 1))

\* the events of the whole stream delivered in one callback
oneCallbackEvents(bs) == _handleData(<< >>, toString(bs), << >>, hasErrorListener).events

\* C8: once the whole stream is delivered, whatever the split into callbacks, the
\* events are one per complete line that begins with "{" and parses as JSON, in
\* stream order, and the same as those of a single callback.
C8_FramingSplitIndependent ==
  wire = << >> =>
    /\ events = expectedEvents(childOut)
    /\ events = oneCallbackEvents(childOut)

(***************************************************************************)
(* The bridge's dispatcher (handleMessage) over the provider handlers.     *)
(* A JSON object is a function from its keys; the key "env" holds an       *)
(* object of its own.  A provider of the config is [settingsConfig].       *)
(***************************************************************************)
rtOthers == << supVars, strVars, frVars, fnVars, agVars >>

\* Codex provider ids, in Object.entries order
CodexIdOrder == << "c1", "c2" >>

\* provider ids a client sends
ProviderIds == {"p1", LocalProviderId}
\* Object.entries order of the providers map
IdOrder == << "p1", LocalProviderId >>

\* settings documents a client sends as settingsConfig or as a patch
PatchA == ("model" :> "v1") @@ ("env" :> ("A" :> "v1"))
PatchB == ("env" :> (("A" :> "v2") @@ ("B" :> "v2")))
Patches == {EmptyDoc, PatchA, PatchB}

\* what CLAUDE_SETTINGS_FILE holds before the bridge first writes it
NativeDocs == {<< >>, << ("theme" :> "v1") @@ ("env" :> ("B" :> "v1")) >>}

Rids == 1..MaxMsgs

\* the outcome of a handler: the files it leaves, the
\* envelopes it wrote, whether it threw, whether the exception left handleMessage,
\* and the << base, patch >> of its write of CLAUDE_SETTINGS_FILE
Begin(files) == [files |-> files, out |-> << >>, threw |-> FALSE, rejected |-> FALSE,
                 merged |-> << >>]

\* sendToHost(type, content, requestId) of a handler
reply(r, type, content, requestId) ==
  [r EXCEPT !.out = Append(@, Envelope(type, content, requestId))]

sendError(r, requestId) == reply(r, "error", << >>, requestId)

ensureClaudeSection(config) ==
  [config EXCEPT !.current = IF @ = "" THEN LocalProviderId ELSE @]

getClaudeProvidersFromConfig(config) ==
  LET cfg == ensureClaudeSection(config)
      ids == SelectSeq(IdOrder, LAMBDA id : id \in DOMAIN cfg.providers)
  IN [i \in 1..Len(ids) |->
        [id |-> ids[i], settingsConfig |-> cfg.providers[ids[i]].settingsConfig]]

saveCodemossConfig(files, config) == [files EXCEPT !.config = config]

ensureCodexSection(codex) ==
  [codex EXCEPT !.current = IF @ = Missing THEN "" ELSE @]

getCodexProvidersFromConfig(codex) ==
  LET cfg == ensureCodexSection(codex)
      ids == SelectSeq(CodexIdOrder, LAMBDA id : id \in DOMAIN cfg.providers)
  IN [i \in 1..Len(ids) |-> [id |-> ids[i], data |-> cfg.providers[ids[i]].data]]

\* a plausible defect: the sections the mirroring completes are saved to the
\* canonical file as well
syncLegacySavingEnsured(files, config) ==
  [files EXCEPT !.legacy = getClaudeProvidersFromConfig(config),
                !.codexLegacy = getCodexProvidersFromConfig(files.codex),
                !.config = ensureClaudeSection(config),
                !.codex = ensureCodexSection(files.codex)]

\* config is the claude section of the loaded config; its codex section is the
\* one the files hold
syncLegacyProviderFilesFromConfig(files, config) ==
  [files EXCEPT !.legacy = getClaudeProvidersFromConfig(config),
                !.codexLegacy = getCodexProvidersFromConfig(files.codex)]

\* readClaudeSettings() || {}
readClaudeSettings(files) ==
  IF files.claude = << >> THEN EmptyDoc ELSE files.claude[1]

\* writeClaudeSettings(next): fs.writeFileSync throws when the file cannot be written
writeClaudeSettings(r, next, base, patch, writable) ==
  IF writable
    THEN [r EXCEPT !.files.claude = << next >>, !.merged = << base, patch >>]
    ELSE [r EXCEPT !.threw = TRUE]

\* a plausible defect: the env of the patch replaces the env of the base
mergeReplacingEnv(baseSettings, providerSettings) ==
  [key \in DOMAIN baseSettings \cup DOMAIN providerSettings |->
     IF key \in DOMAIN providerSettings THEN providerSettings[key] ELSE baseSettings[key]]

mergeProviderSettingsIntoClaudeSettings(baseSettings, providerSettings) ==
  [key \in DOMAIN baseSettings \cup DOMAIN providerSettings |->
     IF key \in DOMAIN providerSettings
       THEN IF key = "env"
              THEN LET baseEnv == IF "env" \in DOMAIN baseSettings
                                    THEN baseSettings["env"] ELSE EmptyDoc
                       value == providerSettings["env"]
                   IN [name \in DOMAIN baseEnv \cup DOMAIN value |->
                         IF name \in DOMAIN value THEN value[name] ELSE baseEnv[name]]
              ELSE providerSettings[key]
       ELSE baseSettings[key]]

getClaudeProvidersWithActiveFlag(files) ==
  LET config == ensureClaudeSection(files.config)
      activeFromConfig == config.current
      activeFromLegacy == files.settings.activeClaudeProviderId
      activeId == IF activeFromConfig # "" THEN activeFromConfig
                  ELSE IF activeFromLegacy # "" THEN activeFromLegacy
                  ELSE LocalProviderId
      seeded == activeFromConfig = "" /\ activeFromLegacy # ""
      config2 == IF seeded THEN [config EXCEPT !.current = activeFromLegacy] ELSE config
      files2 == IF seeded
                  THEN syncLegacyProviderFilesFromConfig(saveCodemossConfig(files, config2),
                                                         config2)
                  ELSE files
      rawProviders == getClaudeProvidersFromConfig(config2)
      providers == [i \in 1..Len(rawProviders) |->
                      [id |-> rawProviders[i].id,
                       isActive |-> rawProviders[i].id = activeId,
                       isLocalProvider |-> FALSE]]
      localEntry == [id |-> LocalProviderId,
                     isActive |-> activeId = LocalProviderId,
                     isLocalProvider |-> TRUE]
  IN [activeId |-> activeId, providers |-> << localEntry >> \o providers, files |-> files2]

\* the reply names the id of SETTINGS_FILE and the name of the entry of
\* PROVIDERS_FILE with that id (an entry's name is written as its id)
handleGetCurrentClaudeConfig(r, requestId) ==
  LET hint == r.files.settings.activeClaudeProviderId
      activeId == IF hint # "" THEN hint ELSE LocalProviderId
      found == \E i \in 1..Len(r.files.legacy) : r.files.legacy[i].id = activeId
      providerName == IF activeId = LocalProviderId THEN "settings.json"
                      ELSE IF found THEN activeId ELSE ""
  IN reply(r, "currentClaudeConfigLoaded",
           << [providerId |-> activeId, providerName |-> providerName] >>, requestId)

\* the reply is the native entry, the provider with the active id, or null
handleGetActiveClaudeProvider(r, requestId) ==
  LET g == getClaudeProvidersWithActiveFlag(r.files)
      content == IF g.activeId = LocalProviderId
                   THEN << [id |-> LocalProviderId, isLocalProvider |-> TRUE] >>
                 ELSE IF \E i \in 1..Len(g.providers) : g.providers[i].id = g.activeId
                   THEN << [id |-> g.activeId, isLocalProvider |-> FALSE] >>
                 ELSE << >>
  IN reply([r EXCEPT !.files = g.files], "activeProviderLoaded", content, requestId)

\* the tail shared by the provider handlers: the refreshed list
providersLoaded(r, requestId) ==
  LET g == getClaudeProvidersWithActiveFlag(r.files)
  IN reply([r EXCEPT !.files = g.files], "providersLoaded", g.providers, requestId)

handleGetProviders(r, requestId) == providersLoaded(r, requestId)

handleGetSettings(r, requestId) == reply(r, "settingsLoaded", << >>, requestId)

handleUpdateCurrentClaudeConfig(r, content, requestId, writable) ==
  LET current == readClaudeSettings(r.files)
      next == mergeProviderSettingsIntoClaudeSettings(current, content.settingsConfig)
      w == writeClaudeSettings(r, next, current, content.settingsConfig, writable)
  IN IF w.threw THEN w ELSE reply(w, "currentClaudeConfigUpdated", << >>, requestId)

handleSwitchClaudeProvider(r, content, requestId, writable) ==
  LET id == content.id
  IN IF id = "" THEN sendError(r, requestId)
     ELSE
       LET config == [ensureClaudeSection(r.files.config) EXCEPT !.current = id]
           stored == syncLegacyProviderFilesFromConfig(saveCodemossConfig(r.files, config),
                                                      config)
           legacy == [stored EXCEPT !.settings.activeClaudeProviderId = id]
           r1 == [r EXCEPT !.files = legacy]
           synced ==
             IF id # LocalProviderId
               THEN IF id \notin DOMAIN config.providers
                      THEN reply(r1, "backend_notification", << >>, requestId)
                      ELSE LET current == readClaudeSettings(r1.files)
                               patch == config.providers[id].settingsConfig
                               next == mergeProviderSettingsIntoClaudeSettings(current, patch)
                               w == writeClaudeSettings(r1, next, current, patch, writable)
                           IN IF w.threw THEN w
                              ELSE reply(w, "showSwitchSuccess", << >>, requestId)
               ELSE reply(r1, "showSwitchSuccess", << >>, requestId)
       IN IF synced.threw THEN synced
          ELSE handleGetActiveClaudeProvider(
                 handleGetCurrentClaudeConfig(providersLoaded(synced, requestId), requestId),
                 requestId)

handleAddProvider(r, content, requestId) ==
  LET config == ensureClaudeSection(r.files.config)
      added == [config EXCEPT !.providers =
                  (content.id :> [settingsConfig |-> content.settingsConfig]) @@ @]
      r1 == IF content.id \notin DOMAIN config.providers
              THEN [r EXCEPT !.files =
                      syncLegacyProviderFilesFromConfig(saveCodemossConfig(r.files, added),
                                                        added)]
              ELSE r
  IN providersLoaded(r1, requestId)

handleUpdateProvider(r, content, requestId, writable) ==
  LET id == content.id
      config == ensureClaudeSection(r.files.config)
      existing == id \in DOMAIN config.providers
      updated == IF existing
                   THEN [config EXCEPT !.providers[id] =
                           [settingsConfig |-> content.settingsConfig]]
                   ELSE config
      r1 == IF existing
              THEN [r EXCEPT !.files =
                      syncLegacyProviderFilesFromConfig(saveCodemossConfig(r.files, updated),
                                                        updated)]
              ELSE r
      activeId == updated.current
      r2 == IF activeId = id
              THEN LET current == readClaudeSettings(r1.files)
                       patch == IF existing THEN updated.providers[id].settingsConfig
                                ELSE EmptyDoc
                       next == mergeProviderSettingsIntoClaudeSettings(current, patch)
                       w == writeClaudeSettings(r1, next, current, patch, writable)
                   IN IF w.threw THEN w
                      ELSE handleGetActiveClaudeProvider(
                             handleGetCurrentClaudeConfig(w, requestId), requestId)
              ELSE r1
  IN IF r2.threw THEN r2 ELSE providersLoaded(r2, requestId)

handleDeleteProvider(r, content, requestId) ==
  LET id == content.id
      config == ensureClaudeSection(r.files.config)
      deleted == [config EXCEPT !.providers =
                    [k \in DOMAIN config.providers \ {id} |-> config.providers[k]]]
      activeId == deleted.current
      r1 == IF activeId = id
              THEN LET fallen == [deleted EXCEPT !.current = LocalProviderId]
                       files1 == [r.files EXCEPT
                                    !.settings.activeClaudeProviderId = LocalProviderId]
                       files2 == syncLegacyProviderFilesFromConfig(
                                   saveCodemossConfig(files1, fallen), fallen)
                   IN handleGetActiveClaudeProvider(
                        handleGetCurrentClaudeConfig(
                          reply([r EXCEPT !.files = files2], "showSwitchSuccess", << >>,
                                requestId),
                          requestId),
                        requestId)
              ELSE [r EXCEPT !.files =
                      syncLegacyProviderFilesFromConfig(saveCodemossConfig(r.files, deleted),
                                                        deleted)]
  IN providersLoaded(r1, requestId)

\* the id a read of the Codex family takes as active
codexActiveId(files) ==
  LET current == ensureCodexSection(files.codex).current
  IN IF current # "" THEN current ELSE files.settings.activeCodexProvider

handleGetCodexProviders(r, requestId) ==
  LET codex == ensureCodexSection(r.files.codex)
      activeFromConfig == codex.current
      activeFromLegacy == r.files.settings.activeCodexProvider
      activeId == codexActiveId(r.files)
      seeded == activeFromConfig = "" /\ activeFromLegacy # ""
      codex2 == IF seeded THEN [codex EXCEPT !.current = activeFromLegacy] ELSE codex
      files2 == IF seeded
                  THEN syncLegacyProviderFilesFromConfig(
                         [r.files EXCEPT !.codex = codex2], r.files.config)
                  ELSE r.files
      raw == getCodexProvidersFromConfig(codex2)
      providers == [i \in 1..Len(raw) |->
                      [id |-> raw[i].id, data |-> raw[i].data,
                       isActive |-> raw[i].id = activeId]]
  IN reply([r EXCEPT !.files = files2], "codexProvidersLoaded", providers, requestId)

\* a Codex handler saves the config it loaded with its codex section replaced
saveCodex(files, codex) ==
  LET config == files.config
  IN syncLegacyProviderFilesFromConfig([files EXCEPT !.codex = codex], config)

handleAddCodexProvider(r, content, requestId) ==
  LET codex == ensureCodexSection(r.files.codex)
      added == [codex EXCEPT !.providers =
                  (content.id :> [data |-> content.data]) @@ @]
  IN handleGetCodexProviders([r EXCEPT !.files = saveCodex(r.files, added)], requestId)

handleUpdateCodexProvider(r, content, requestId) ==
  LET codex == ensureCodexSection(r.files.codex)
      r1 == IF content.id \in DOMAIN codex.providers
              THEN [r EXCEPT !.files =
                      saveCodex(r.files,
                                [codex EXCEPT !.providers[content.id] =
                                   [data |-> content.data]])]
              ELSE r
  IN handleGetCodexProviders(r1, requestId)

handleSwitchCodexProvider(r, content, requestId) ==
  IF content.id = "" THEN sendError(r, requestId)
  ELSE LET codex == [ensureCodexSection(r.files.codex) EXCEPT !.current = content.id]
           stored == saveCodex(r.files, codex)
           hinted == [stored EXCEPT !.settings.activeCodexProvider = content.id]
       IN handleGetCodexProviders([r EXCEPT !.files = hinted], requestId)

\* a plausible defect: the pointer is left on the deleted provider
handleDeleteCodexProviderKeepingPointer(r, content, requestId) ==
  LET codex == ensureCodexSection(r.files.codex)
      deleted == [codex EXCEPT !.providers =
                    [k \in DOMAIN codex.providers \ {content.id} |-> codex.providers[k]]]
  IN handleGetCodexProviders([r EXCEPT !.files = saveCodex(r.files, deleted)], requestId)

handleDeleteCodexProvider(r, content, requestId) ==
  IF content.id = "" THEN sendError(r, requestId)
  ELSE LET id == content.id
           codex == ensureCodexSection(r.files.codex)
           deleted == [codex EXCEPT !.providers =
                         [k \in DOMAIN codex.providers \ {id} |-> codex.providers[k]]]
           activeId == IF deleted.current # "" THEN deleted.current
                       ELSE r.files.settings.activeCodexProvider
           reset == activeId = id
           codex2 == IF reset THEN [deleted EXCEPT !.current = ""] ELSE deleted
           files1 == IF reset
                       THEN [r.files EXCEPT !.settings.activeCodexProvider = ""]
                       ELSE r.files
       IN handleGetCodexProviders([r EXCEPT !.files = saveCodex(files1, codex2)],
                                  requestId)

\* content.providers is the list to import; entries without a non-empty id are skipped
RECURSIVE importInto(_, _)
importInto(providers, imported) ==
  IF imported = << >> THEN providers
  ELSE LET p == Head(imported)
       IN importInto(IF p.id = "" THEN providers
                     ELSE (p.id :> [settingsConfig |-> p.settingsConfig]) @@ providers,
                     Tail(imported))

handleSaveImportedProviders(r, content, requestId) ==
  LET config == ensureClaudeSection(r.files.config)
      next == [config EXCEPT !.providers = importInto(@, content.providers)]
      r1 == [r EXCEPT !.files =
               syncLegacyProviderFilesFromConfig(saveCodemossConfig(r.files, next), next)]
  IN reply(providersLoaded(r1, requestId), "backend_notification", << >>, requestId)

\* ------------------------------------------------------------------------
\* MCP servers of the two services
\* ------------------------------------------------------------------------

\* getWorkspaceRoot(): CODEMOSS_WORKSPACE_ROOT or process.cwd(), never empty
WorkspaceRoot == "/ws"

McpIdOrder == << "s1", "s2" >>

McpIds == {McpIdOrder[i] : i \in 1..Len(McpIdOrder)}

\* a server spec is written as a string; "null" stands for a value that is no object
IsObject(spec) == spec # "null"

without(list, id) == SelectSeq(list, LAMBDA x : x # id)

getClaudeDisabledServers(doc, projectPath) ==
  LET global == IF doc.disabledMcpServers # << >>
                  THEN {doc.disabledMcpServers[1][i] :
                          i \in 1..Len(doc.disabledMcpServers[1])}
                  ELSE {}
      project == IF /\ projectPath # ""
                    /\ doc.projects # << >>
                    /\ projectPath \in DOMAIN doc.projects[1]
                    /\ doc.projects[1][projectPath] # << >>
                   THEN LET list == doc.projects[1][projectPath][1]
                        IN {list[i] : i \in 1..Len(list)}
                   ELSE {}
  IN global \cup project

buildClaudeServerEntry(id, serverSpec, disabledSet) ==
  [id |-> id, server |-> serverSpec, enabled |-> id \notin disabledSet]

getClaudeMcpServers(files, projectPath) ==
  IF files.claudeJson # << >> /\ files.claudeJson[1].mcpServers # << >>
    THEN LET doc == files.claudeJson[1]
             servers == doc.mcpServers[1]
             disabled == getClaudeDisabledServers(doc, projectPath)
             ids == SelectSeq(McpIdOrder,
                              LAMBDA id : id \in DOMAIN servers /\ IsObject(servers[id]))
         IN [i \in 1..Len(ids) |-> buildClaudeServerEntry(ids[i], servers[ids[i]], disabled)]
  ELSE IF files.mcpServers # << >> THEN files.mcpServers[1]
  ELSE files.legacyMcp

\* loadClaudeJson() || {}
EmptyClaudeJson == [mcpServers |-> << >>, disabledMcpServers |-> << >>, projects |-> << >>]

updateClaudeDisabledServers(doc, serverId, enabled, projectPath) ==
  LET doc1 == IF doc.disabledMcpServers = << >>
                THEN [doc EXCEPT !.disabledMcpServers = << << >> >>] ELSE doc
      push(list) == IF enabled THEN without(list, serverId)
                    ELSE Append(without(list, serverId), serverId)
  IN IF projectPath = ""
       THEN [doc1 EXCEPT !.disabledMcpServers = << push(@[1]) >>]
       ELSE LET projects == IF doc1.projects = << >> THEN EmptyDoc ELSE doc1.projects[1]
                old == IF projectPath \in DOMAIN projects /\ projects[projectPath] # << >>
                         THEN projects[projectPath][1] ELSE << >>
            IN [doc1 EXCEPT !.projects =
                  << [k \in DOMAIN projects \cup {projectPath} |->
                        IF k = projectPath THEN << push(old) >> ELSE projects[k]] >>]

\* syncClaudeMcpToSettings(): copies the map and the global list into
\* CLAUDE_SETTINGS_FILE; writeClaudeSettings throws when the file cannot be written
syncClaudeMcpToSettings(files, writable) ==
  IF files.claudeJson = << >> THEN [files |-> files, threw |-> FALSE]
  ELSE LET doc == files.claudeJson[1]
           current == readClaudeSettings(files)
           withServers == IF doc.mcpServers # << >>
                            THEN [k \in DOMAIN current \cup {"mcpServers"} |->
                                    IF k = "mcpServers" THEN doc.mcpServers[1]
                                    ELSE current[k]]
                            ELSE current
           next == IF doc.disabledMcpServers # << >>
                     THEN [k \in DOMAIN withServers \cup {"disabledMcpServers"} |->
                             IF k = "disabledMcpServers" THEN doc.disabledMcpServers[1]
                             ELSE withServers[k]]
                     ELSE withServers
       IN IF writable THEN [files |-> [files EXCEPT !.claude = << next >>], threw |-> FALSE]
          ELSE [files |-> files, threw |-> TRUE]

upsertClaudeMcpServer(files, server, projectPath, writable) ==
  LET doc == IF files.claudeJson = << >> THEN EmptyClaudeJson ELSE files.claudeJson[1]
      servers == IF doc.mcpServers = << >> THEN EmptyDoc ELSE doc.mcpServers[1]
      serverSpec == IF IsObject(server.server) THEN server.server ELSE "{}"
      doc1 == [doc EXCEPT !.mcpServers =
                 << [k \in DOMAIN servers \cup {server.id} |->
                       IF k = server.id THEN serverSpec ELSE servers[k]] >>]
      doc2 == updateClaudeDisabledServers(doc1, server.id, server.enabled, projectPath)
  IN syncClaudeMcpToSettings([files EXCEPT !.claudeJson = << doc2 >>], writable)

deleteClaudeMcpServer(files, serverId, writable) ==
  IF files.claudeJson # << >> /\ files.claudeJson[1].mcpServers # << >>
    THEN LET doc == files.claudeJson[1]
             servers == doc.mcpServers[1]
             doc1 == [doc EXCEPT !.mcpServers =
                        << [k \in DOMAIN servers \ {serverId} |-> servers[k]] >>]
             doc2 == IF doc1.disabledMcpServers # << >>
                       THEN [doc1 EXCEPT !.disabledMcpServers = << without(@[1], serverId) >>]
                       ELSE doc1
             doc3 == IF doc2.projects # << >>
                       THEN [doc2 EXCEPT !.projects =
                               << [k \in DOMAIN @[1] |->
                                     IF @[1][k] # << >>
                                       THEN << without(@[1][k][1], serverId) >>
                                       ELSE @[1][k]] >>]
                       ELSE doc2
             synced == syncClaudeMcpToSettings([files EXCEPT !.claudeJson = << doc3 >>],
                                               writable)
         IN [files |-> synced.files, threw |-> synced.threw, result |-> TRUE]
  ELSE IF files.mcpServers # << >>
    THEN [files |-> [files EXCEPT !.mcpServers =
                       << SelectSeq(@[1], LAMBDA entry : entry.id # serverId) >>],
          threw |-> FALSE, result |-> TRUE]
  ELSE [files |-> files, threw |-> FALSE, result |-> FALSE]

\* a value of the TOML text is [quoted, body]; a parsed value is [t, v] with
\* t "bool" for true and false and "str" for anything else
parseTomlValue(valueStr) ==
  IF ~valueStr.quoted /\ valueStr.body \in {"true", "false"}
    THEN [t |-> "bool", v |-> valueStr.body]
    ELSE [t |-> "str", v |-> valueStr.body]

toTomlValue(value) ==
  IF value.t = "bool" THEN [quoted |-> FALSE, body |-> value.v]
  ELSE [quoted |-> TRUE, body |-> value.v]

\* parseToml over the lines of the file: [mcp_servers.<id>] opens the table of a
\* server, a key line sets a key of the open table
RECURSIVE parseTomlLines(_, _, _)
parseTomlLines(lines, result, currentSection) ==
  IF lines = << >> THEN result
  ELSE LET line == Head(lines)
       IN IF line.kind = "section"
            THEN parseTomlLines(Tail(lines),
                                IF line.name \in DOMAIN result THEN result
                                ELSE (line.name :> EmptyDoc) @@ result,
                                line.name)
          ELSE IF currentSection = "" THEN parseTomlLines(Tail(lines), result, "")
          ELSE parseTomlLines(
                 Tail(lines),
                 [result EXCEPT ![currentSection] =
                    [k \in DOMAIN @ \cup {line.name} |->
                       IF k = line.name THEN parseTomlValue(line.value) ELSE @[k]]],
                 currentSection)

parseToml(lines) == parseTomlLines(lines, EmptyDoc, "")

TomlKeyOrder == << "command", "enabled" >>

\* writeTomlSection for the table of one server: nothing is written for a table
\* without simple entries
writeTomlSection(id, section) ==
  LET keys == SelectSeq(TomlKeyOrder, LAMBDA k : k \in DOMAIN section)
  IN IF keys = << >> THEN << >>
     ELSE << [kind |-> "section", name |-> id, value |-> [quoted |-> FALSE, body |-> ""]] >>
          \o [i \in 1..Len(keys) |->
                [kind |-> "kv", name |-> keys[i], value |-> toTomlValue(section[keys[i]])]]

RECURSIVE generateTomlFrom(_, _)
generateTomlFrom(ids, servers) ==
  IF ids = << >> THEN << >>
  ELSE writeTomlSection(Head(ids), servers[Head(ids)]) \o generateTomlFrom(Tail(ids), servers)

generateToml(servers) ==
  generateTomlFrom(SelectSeq(McpIdOrder, LAMBDA id : id \in DOMAIN servers), servers)

\* readCodexConfigToml(): << >> for no file or no mcp_servers table, else << map >>
readCodexConfigToml(files) ==
  IF files.toml = << >> THEN << >>
  ELSE LET servers == parseToml(files.toml[1])
       IN IF DOMAIN servers = {} THEN << >> ELSE << servers >>

writeCodexConfigToml(files, servers) == [files EXCEPT !.toml = << generateToml(servers) >>]

toCodexMcpServer(id, config) ==
  [id |-> id,
   server |-> IF "command" \in DOMAIN config /\ config["command"].v # ""
                THEN config["command"].v ELSE "",
   enabled |-> IF "enabled" \in DOMAIN config /\ config["enabled"].t = "bool"
                 THEN config["enabled"].v = "true" ELSE TRUE]

getCodexMcpServers(files) ==
  LET config == readCodexConfigToml(files)
  IN IF config = << >> THEN << >>
     ELSE LET ids == SelectSeq(McpIdOrder, LAMBDA id : id \in DOMAIN config[1])
          IN [i \in 1..Len(ids) |-> toCodexMcpServer(ids[i], config[1][ids[i]])]

buildCodexMcpConfig(server) ==
  LET enabled == "enabled" :> [t |-> "bool", v |-> IF server.enabled THEN "true" ELSE "false"]
  IN IF server.server # "" /\ IsObject(server.server)
       THEN ("command" :> [t |-> "str", v |-> server.server]) @@ enabled
       ELSE enabled

upsertCodexMcpServer(files, server) ==
  LET config == readCodexConfigToml(files)
      servers == IF config = << >> THEN EmptyDoc ELSE config[1]
  IN writeCodexConfigToml(files,
                          [k \in DOMAIN servers \cup {server.id} |->
                             IF k = server.id THEN buildCodexMcpConfig(server)
                             ELSE servers[k]])

deleteCodexMcpServer(files, serverId) ==
  LET config == readCodexConfigToml(files)
  IN IF config # << >> /\ serverId \in DOMAIN config[1]
       THEN [files |-> writeCodexConfigToml(
                         files, [k \in DOMAIN config[1] \ {serverId} |-> config[1][k]]),
             result |-> TRUE]
       ELSE [files |-> files, result |-> FALSE]

handleGetMcpServers(r, requestId) ==
  reply(r, "mcpServersLoaded", getClaudeMcpServers(r.files, WorkspaceRoot), requestId)

handleGetCodexMcpServers(r, requestId) ==
  reply(r, "mcpServersLoaded", getCodexMcpServers(r.files), requestId)

\* handleAddMcpServer and handleUpdateMcpServer differ in the type of the reply
handleUpsertMcpServer(r, content, replyType, requestId, writable) ==
  LET u == upsertClaudeMcpServer(r.files, content, WorkspaceRoot, writable)
      r1 == [r EXCEPT !.files = u.files]
  IN IF u.threw THEN sendError(r1, requestId)
     ELSE handleGetMcpServers(reply(r1, replyType, << content >>, requestId), requestId)

handleUpsertCodexMcpServer(r, content, replyType, requestId) ==
  handleGetCodexMcpServers(
    reply([r EXCEPT !.files = upsertCodexMcpServer(r.files, content)],
          replyType, << content >>, requestId),
    requestId)

handleDeleteMcpServer(r, content, requestId, writable) ==
  LET d == deleteClaudeMcpServer(r.files, content.id, writable)
      r1 == [r EXCEPT !.files = d.files]
  IN IF d.threw \/ ~d.result THEN sendError(r1, requestId)
     ELSE handleGetMcpServers(
            reply(r1, "mcpServerDeleted", << [id |-> content.id] >>, requestId), requestId)

handleDeleteCodexMcpServer(r, content, requestId) ==
  LET d == deleteCodexMcpServer(r.files, content.id)
      r1 == [r EXCEPT !.files = d.files]
  IN IF ~d.result THEN sendError(r1, requestId)
     ELSE handleGetCodexMcpServers(
            reply(r1, "mcpServerDeleted", << [id |-> content.id] >>, requestId), requestId)

find(servers, id) == SelectSeq(servers, LAMBDA entry : entry.id = id)

handleToggleMcpServer(r, content, requestId, writable) ==
  LET found == find(getClaudeMcpServers(r.files, WorkspaceRoot), content.id)
  IN IF found = << >> THEN sendError(r, requestId)
     ELSE LET next == [found[1] EXCEPT !.enabled = ~@]
              u == upsertClaudeMcpServer(r.files, next, WorkspaceRoot, writable)
              r1 == [r EXCEPT !.files = u.files]
          IN IF u.threw THEN sendError(r1, requestId)
             ELSE handleGetMcpServers(reply(r1, "mcpServerToggled", << next >>, requestId),
                                      requestId)

\* a plausible defect: a toggle of an id that is not listed adds the server
handleToggleCodexAddingAbsent(r, content, requestId) ==
  LET found == find(getCodexMcpServers(r.files), content.id)
      next == IF found = << >>
                THEN [id |-> content.id, server |-> "", enabled |-> TRUE]
                ELSE [found[1] EXCEPT !.enabled = ~@]
  IN handleGetCodexMcpServers(
       reply([r EXCEPT !.files = upsertCodexMcpServer(r.files, next)],
             "mcpServerToggled", << next >>, requestId),
       requestId)

handleToggleCodexMcpServer(r, content, requestId) ==
  LET found == find(getCodexMcpServers(r.files), content.id)
  IN IF found = << >> THEN sendError(r, requestId)
     ELSE LET next == [found[1] EXCEPT !.enabled = ~@]
          IN handleGetCodexMcpServers(
               reply([r EXCEPT !.files = upsertCodexMcpServer(r.files, next)],
                     "mcpServerToggled", << next >>, requestId),
               requestId)

\* ------------------------------------------------------------------------
\* Skills: the active and the management directory of a scope
\* ------------------------------------------------------------------------

\* the order in which readdirSync lists the files of a skill directory
SkillFileOrder == << "SKILL.md", "a.txt" >>

\* what the file system does to the calls of one handler: op "none" lets every
\* call succeed; any other op makes renameSync throw, and then "mkdir" makes
\* mkdirSync throw, "copy" makes copyFileSync throw after `after` files were
\* copied, "delete" makes unlinkSync throw after `after` files were removed,
\* "rmdir" makes rmdirSync throw, and "rename" makes nothing else throw
NoFault == [op |-> "none", after |-> 0]

Faults ==
  {NoFault, [op |-> "rename", after |-> 0], [op |-> "mkdir", after |-> 0],
   [op |-> "rmdir", after |-> 0]}
  \cup {[op |-> op, after |-> k] : op \in {"copy", "delete"}, k \in 0..(Len(SkillFileOrder) - 1)}

\* the first k files of an entry, in directory order
firstFiles(files, k) ==
  LET listed == SelectSeq(SkillFileOrder, LAMBDA f : f \in files)
  IN {listed[i] : i \in 1..(IF k < Len(listed) THEN k ELSE Len(listed))}

\* copyDirectory or copyFileSync of one entry: what exists at the target afterwards
copyDirectory(entry, fault) ==
  IF fault.op = "mkdir" /\ entry.isDirectory THEN [target |-> << >>, threw |-> TRUE]
  ELSE IF fault.op = "copy" /\ fault.after < Cardinality(entry.files)
    THEN [target |-> IF entry.isDirectory
                       THEN << [entry EXCEPT !.files = firstFiles(@, fault.after)] >>
                       ELSE << >>,
          threw |-> TRUE]
  ELSE [target |-> << entry >>, threw |-> FALSE]

\* deleteDirectory or unlinkSync of one entry: what is left of it afterwards
deleteDirectory(entry, fault) ==
  IF fault.op = "delete" /\ fault.after < Cardinality(entry.files)
    THEN [left |-> << [entry EXCEPT !.files = @ \ firstFiles(@, fault.after)] >>,
          threw |-> TRUE]
  ELSE IF fault.op = "rmdir" /\ entry.isDirectory
    THEN [left |-> << [entry EXCEPT !.files = {}] >>, threw |-> TRUE]
  ELSE [left |-> << >>, threw |-> FALSE]

\* a directory with the entry name set to what is in the option, or without it
withEntry(dir, name, option) ==
  IF option = << >> THEN [k \in DOMAIN dir \ {name} |-> dir[k]]
  ELSE [k \in DOMAIN dir \cup {name} |-> IF k = name THEN option[1] ELSE dir[k]]

\* a plausible defect: the fallback removes the source before it copies
moveDeletingFirst(source, target, name, fault) ==
  IF fault.op = "none"
    THEN [source |-> withEntry(source, name, << >>),
          target |-> withEntry(target, name, << source[name] >>), success |-> TRUE]
  ELSE LET deleted == deleteDirectory(source[name], fault)
           copied == copyDirectory(source[name], fault)
       IN IF deleted.threw
            THEN [source |-> withEntry(source, name, deleted.left), target |-> target,
                  success |-> FALSE]
          ELSE [source |-> withEntry(source, name, << >>),
                target |-> withEntry(target, name, copied.target),
                success |-> ~copied.threw]

\* the move of enableSkill and disableSkill: renameSync, and when it throws,
\* copy then delete inside one try
move(source, target, name, fault) ==
  IF fault.op = "none"
    THEN [source |-> withEntry(source, name, << >>),
          target |-> withEntry(target, name, << source[name] >>), success |-> TRUE]
  ELSE LET copied == copyDirectory(source[name], fault)
           deleted == deleteDirectory(source[name], fault)
       IN IF copied.threw
            THEN [source |-> source, target |-> withEntry(target, name, copied.target),
                  success |-> FALSE]
          ELSE [source |-> withEntry(source, name, deleted.left),
                target |-> withEntry(target, name, copied.target),
                success |-> ~deleted.threw]

\* a plausible defect: an entry of the same name at the destination is replaced
moveSkillOverwriting(files, name, scope, from, to, enabled, fault) ==
  LET source == files.skills[scope][from]
      target == files.skills[scope][to]
  IN IF name \notin DOMAIN source
       THEN [files |-> files,
             result |-> [success |-> FALSE, conflict |-> FALSE, enabled |-> enabled]]
     ELSE LET m == move(source, target, name, fault)
          IN [files |-> [files EXCEPT !.skills[scope][from] = m.source,
                                      !.skills[scope][to] = m.target],
              result |-> [success |-> m.success, conflict |-> FALSE, enabled |-> enabled]]

\* enableSkill (from management to active) and disableSkill (from active to
\* management) are the same code with the two directories exchanged
moveSkill(files, name, scope, from, to, enabled, fault) ==
  LET source == files.skills[scope][from]
      target == files.skills[scope][to]
  IN IF name \notin DOMAIN source
       THEN [files |-> files,
             result |-> [success |-> FALSE, conflict |-> FALSE, enabled |-> enabled]]
     ELSE IF name \in DOMAIN target
       THEN [files |-> files,
             result |-> [success |-> FALSE, conflict |-> TRUE, enabled |-> enabled]]
     ELSE LET m == move(source, target, name, fault)
          IN [files |-> [files EXCEPT !.skills[scope][from] = m.source,
                                      !.skills[scope][to] = m.target],
              result |-> [success |-> m.success, conflict |-> FALSE, enabled |-> enabled]]

enableSkill(files, name, scope, fault) ==
  moveSkill(files, name, scope, "management", "active", TRUE, fault)

disableSkill(files, name, scope, fault) ==
  moveSkill(files, name, scope, "active", "management", FALSE, fault)

\* a plausible defect: the current state is taken for the requested state
toggleSkillInverted(files, name, scope, currentEnabled, fault) ==
  IF currentEnabled THEN enableSkill(files, name, scope, fault)
  ELSE disableSkill(files, name, scope, fault)

toggleSkill(files, name, scope, currentEnabled, fault) ==
  IF currentEnabled THEN disableSkill(files, name, scope, fault)
  ELSE enableSkill(files, name, scope, fault)

\* the paths a client may ask to import: the entry found there, if any
SourcePaths ==
  ("/src/k1" :> << [name |-> "k1", isDirectory |-> TRUE, files |-> {"SKILL.md", "a.txt"}] >>)
  @@ ("/src/k1.md" :> << [name |-> "k1", isDirectory |-> FALSE, files |-> {"SKILL.md"}] >>)
  @@ ("/src/none" :> << >>)

\* the loop of importSkills over the source paths
RECURSIVE importLoop(_, _, _, _, _)
importLoop(dir, paths, count, errors, fault) ==
  IF paths = << >> THEN [dir |-> dir, count |-> count, errors |-> errors]
  ELSE LET found == SourcePaths[Head(paths)]
       IN IF found = << >> \/ found[1].name \in DOMAIN dir
            THEN importLoop(dir, Tail(paths), count, errors + 1, fault)
          ELSE LET entry == [isDirectory |-> found[1].isDirectory, files |-> found[1].files]
                   copied == copyDirectory(entry, fault)
               IN importLoop(withEntry(dir, found[1].name, copied.target), Tail(paths),
                             IF copied.threw THEN count ELSE count + 1,
                             IF copied.threw THEN errors + 1 ELSE errors, fault)

importSkills(files, sourcePaths, scope, fault) ==
  LET done == importLoop(files.skills[scope].active, sourcePaths, 0, 0, fault)
  IN [files |-> [files EXCEPT !.skills[scope].active = done.dir],
      result |-> [success |-> done.errors = 0 \/ done.count > 0, conflict |-> FALSE,
                  enabled |-> TRUE]]

deleteSkillByName(files, name, scope, enabled, fault) ==
  LET where == IF enabled THEN "active" ELSE "management"
      dir == files.skills[scope][where]
  IN IF name \notin DOMAIN dir
       THEN [files |-> files,
             result |-> [success |-> FALSE, conflict |-> FALSE, enabled |-> enabled]]
     ELSE LET deleted == deleteDirectory(dir[name], fault)
          IN [files |-> [files EXCEPT !.skills[scope][where] =
                           withEntry(dir, name, deleted.left)],
              result |-> [success |-> ~deleted.threw, conflict |-> FALSE,
                          enabled |-> enabled]]

\* content.scope === 'local' ? 'local' : 'global'
scopeOf(content) == IF content.scope = "local" THEN "local" ELSE "global"

handleImportSkill(r, content, requestId, fault) ==
  IF content.paths = << >>
    THEN reply(r, "skillImported",
               << [success |-> FALSE, conflict |-> FALSE, enabled |-> TRUE] >>, requestId)
  ELSE LET i == importSkills(r.files, content.paths, scopeOf(content), fault)
       IN reply([r EXCEPT !.files = i.files], "skillImported", << i.result >>, requestId)

handleDeleteSkill(r, content, requestId, fault) ==
  IF content.name = ""
    THEN reply(r, "skillDeleted",
               << [success |-> FALSE, conflict |-> FALSE, enabled |-> content.enabled] >>,
               requestId)
  ELSE LET d == deleteSkillByName(r.files, content.name, scopeOf(content), content.enabled,
                                  fault)
       IN reply([r EXCEPT !.files = d.files], "skillDeleted", << d.result >>, requestId)

handleToggleSkill(r, content, requestId, fault) ==
  IF content.name = "" THEN sendError(r, requestId)
  ELSE LET t == toggleSkill(r.files, content.name, scopeOf(content), content.enabled, fault)
       IN reply([r EXCEPT !.files = t.files], "skillToggled", << t.result >>, requestId)

\* the switch of handleMessage
dispatch(message, files, writable, fault) ==
  LET r == Begin(files)
      type == message.type
      content == message.content
      requestId == message.requestId
  IN CASE type = "getSettings" -> handleGetSettings(r, requestId)
       [] type = "updateCurrentClaudeConfig" ->
            handleUpdateCurrentClaudeConfig(r, content, requestId, writable)
       [] type = "switchProvider" -> handleSwitchClaudeProvider(r, content, requestId, writable)
       [] type = "getProviders" -> handleGetProviders(r, requestId)
       [] type = "addProvider" -> handleAddProvider(r, content, requestId)
       [] type = "updateProvider" -> handleUpdateProvider(r, content, requestId, writable)
       [] type = "deleteProvider" -> handleDeleteProvider(r, content, requestId)
       [] type = "getCurrentClaudeConfig" -> handleGetCurrentClaudeConfig(r, requestId)
       [] type = "getActiveProvider" -> handleGetActiveClaudeProvider(r, requestId)
       [] type = "getCodexProviders" -> handleGetCodexProviders(r, requestId)
       [] type = "addCodexProvider" -> handleAddCodexProvider(r, content, requestId)
       [] type = "updateCodexProvider" -> handleUpdateCodexProvider(r, content, requestId)
       [] type = "switchCodexProvider" -> handleSwitchCodexProvider(r, content, requestId)
       [] type = "deleteCodexProvider" -> handleDeleteCodexProvider(r, content, requestId)
       [] type = "saveImportedProviders" ->
            handleSaveImportedProviders(r, content, requestId)
       [] type = "getMcpServers" -> handleGetMcpServers(r, requestId)
       [] type = "getCodexMcpServers" -> handleGetCodexMcpServers(r, requestId)
       [] type = "addMcpServer" ->
            handleUpsertMcpServer(r, content, "mcpServerAdded", requestId, writable)
       [] type = "addCodexMcpServer" ->
            handleUpsertCodexMcpServer(r, content, "mcpServerAdded", requestId)
       [] type = "updateMcpServer" ->
            handleUpsertMcpServer(r, content, "mcpServerUpdated", requestId, writable)
       [] type = "updateCodexMcpServer" ->
            handleUpsertCodexMcpServer(r, content, "mcpServerUpdated", requestId)
       [] type = "deleteMcpServer" -> handleDeleteMcpServer(r, content, requestId, writable)
       [] type = "deleteCodexMcpServer" -> handleDeleteCodexMcpServer(r, content, requestId)
       [] type = "toggleMcpServer" -> handleToggleMcpServer(r, content, requestId, writable)
       [] type = "toggleCodexMcpServer" -> handleToggleCodexMcpServer(r, content, requestId)
       [] type = "importSkill" -> handleImportSkill(r, content, requestId, fault)
       [] type = "deleteSkill" -> handleDeleteSkill(r, content, requestId, fault)
       [] type = "toggleSkill" -> handleToggleSkill(r, content, requestId, fault)
       [] OTHER -> reply(r, type \o "Response", << >>, requestId)

\* a plausible defect: no catch around the switch, the rejection is unhandled
handleMessageWithoutCatch(message, files, writable, fault) ==
  LET r == dispatch(message, files, writable, fault)
  IN IF r.threw THEN [r EXCEPT !.rejected = TRUE] ELSE r

\* handleMessage: the switch inside try, sendError in the catch
handleMessage(message, files, writable, fault) ==
  LET r == dispatch(message, files, writable, fault)
  IN IF r.threw THEN sendError(r, message.requestId) ELSE r

\* the Codex family's message types
CodexTypes == {"getCodexProviders", "addCodexProvider", "updateCodexProvider",
               "switchCodexProvider", "deleteCodexProvider"}

CodexMcpTypes == {"getCodexMcpServers", "addCodexMcpServer", "updateCodexMcpServer",
                  "deleteCodexMcpServer", "toggleCodexMcpServer"}

\* what a read of the MCP servers of the service of the given message type
\* reports as the enabled value of the server id: "none" when it lists no such server
reportedEnabled(type, id, files) ==
  LET servers == IF type \in CodexMcpTypes THEN getCodexMcpServers(files)
                 ELSE getClaudeMcpServers(files, WorkspaceRoot)
      found == find(servers, id)
  IN IF found = << >> THEN "none" ELSE IF found[1].enabled THEN "true" ELSE "false"

\* whether the id of the message is the one a read of its family takes as active
wasActive(message, files) ==
  IF message.type \in CodexTypes
    THEN message.content.id # "" /\ codexActiveId(files) = message.content.id
    ELSE getClaudeProvidersWithActiveFlag(files).activeId = message.content.id

SkillTypes == {"importSkill", "deleteSkill", "toggleSkill"}

\* the skill a message names: name, scope and the enabled value the client sent
skillOf(message) ==
  IF message.type \in SkillTypes
    THEN [name |-> message.content.name, scope |-> scopeOf(message.content),
          enabled |-> message.content.enabled]
    ELSE [name |-> "", scope |-> "", enabled |-> FALSE]

\* rl.on('line') for one parsed line: the state after handleMessage(message)
onLine(message, writable, fault) ==
  \E r \in {handleMessage(message, Files, writable, fault)} :
     /\ ~crashed
     /\ serverStarted
     /\ codemossConfig' = r.files.config
     /\ codexConfig' = r.files.codex
     /\ codemossSettings' = r.files.settings
     /\ providersFile' = r.files.legacy
     /\ codexProvidersFile' = r.files.codexLegacy
     /\ UNCHANGED serverStarted
     /\ atStart' = r.files
     /\ claudeSettingsFile' = r.files.claude
     /\ claudeJson' = r.files.claudeJson
     /\ configMcpServers' = r.files.mcpServers
     /\ legacyMcpServers' = r.files.legacyMcp
     /\ codexConfigToml' = r.files.toml
     /\ skillDirs' = r.files.skills
     /\ lastOut' = r.out
     /\ lastReq' = [type |-> message.type, requestId |-> message.requestId,
                     id |-> message.content.id,
                     wasActive |-> wasActive(message, Files),
                     wasEnabled |-> reportedEnabled(message.type, message.content.id, Files),
                     skill |-> skillOf(message), fault |-> fault]
     /\ lastThrew' = r.threw
     /\ crashed' = r.rejected
     /\ merged' = r.merged

\* the messages about providers a client can write to the bridge's stdin
Message(type, id, settingsConfig, requestId) ==
  [type |-> type, content |-> [id |-> id, settingsConfig |-> settingsConfig],
   requestId |-> requestId]

ProviderMessages ==
  {Message(type, "", EmptyDoc, requestId) :
     type \in {"getProviders", "frobnicate"}, requestId \in Rids}
  \cup {Message(type, id, EmptyDoc, requestId) :
          type \in {"switchProvider", "deleteProvider"}, id \in ProviderIds,
          requestId \in Rids}
  \cup {Message(type, id, doc, requestId) :
          type \in {"addProvider", "updateProvider"}, id \in ProviderIds, doc \in Patches,
          requestId \in Rids}
  \cup {Message("updateCurrentClaudeConfig", "", doc, requestId) :
          doc \in Patches, requestId \in Rids}

\* the types whose handlers write CLAUDE_SETTINGS_FILE
WritingTypes == {"switchProvider", "updateProvider", "updateCurrentClaudeConfig"}

\* one line arrives on the bridge's stdin and is handled
BridgeLine ==
  \E message \in ProviderMessages, writable \in BOOLEAN :
    /\ message.type \notin WritingTypes => writable
    /\ onLine(message, writable, NoFault)
    /\ UNCHANGED << _webview, stdin, routed, replied >>
    /\ UNCHANGED rtOthers

ProvInit ==
  /\ FilesInit
  /\ PlumbingInit
  /\ claudeSettingsFile \in NativeDocs
  /\ Started

ProvNext == BridgeLine

InitProviders == SupInit /\ StrIdle /\ FrIdle /\ ProvInit /\ FnIdle /\ AgIdle

SpecProviders == InitProviders /\ [][ProvNext]_vars

\* ------------------------------------------------------------------------
\* The MCP servers
\* ------------------------------------------------------------------------

McpMessage(type, id, server, enabled, requestId) ==
  [type |-> type, content |-> [id |-> id, server |-> server, enabled |-> enabled],
   requestId |-> requestId]

McpMessages ==
  {McpMessage("getMcpServers", "", "", TRUE, 1)}
  \cup {McpMessage(type, id, "", TRUE, 1) :
          type \in {"toggleMcpServer", "deleteMcpServer"}, id \in McpIds}
  \cup {McpMessage(type, "s1", "cmd", enabled, 1) :
          type \in {"addMcpServer", "updateMcpServer"}, enabled \in BOOLEAN}

CodexMcpMessages ==
  {McpMessage("getCodexMcpServers", "", "", TRUE, 1)}
  \cup {McpMessage(type, id, "", TRUE, 1) :
          type \in {"toggleCodexMcpServer", "deleteCodexMcpServer"}, id \in McpIds}
  \cup {McpMessage(type, "s1", server, enabled, 1) :
          type \in {"addCodexMcpServer", "updateCodexMcpServer"},
          server \in {"", "cmd"}, enabled \in BOOLEAN}

\* the types whose handlers call syncClaudeMcpToSettings
McpWritingTypes == {"addMcpServer", "updateMcpServer", "deleteMcpServer", "toggleMcpServer"}

\* one MCP message for the Codex service arrives on the bridge's stdin
CodexMcpLine ==
  \E message \in CodexMcpMessages :
    /\ onLine(message, TRUE, NoFault)
    /\ UNCHANGED << _webview, stdin, routed, replied >>
    /\ UNCHANGED rtOthers

\* one MCP message for the Claude service arrives on the bridge's stdin
McpLine ==
  \E message \in McpMessages, writable \in BOOLEAN :
    /\ message.type \notin McpWritingTypes => writable
    /\ onLine(message, writable, NoFault)
    /\ UNCHANGED << _webview, stdin, routed, replied >>
    /\ UNCHANGED rtOthers

\* the documents CLAUDE_JSON_FILE may hold when the bridge starts
ClaudeJsonDocs ==
  {[mcpServers |-> m, disabledMcpServers |-> d, projects |-> p] :
     m \in {<< >>, << EmptyDoc >>, << "s1" :> "stdio" >>,
            << ("s1" :> "stdio") @@ ("s2" :> "null") >>},
     d \in {<< >>, << << "s1" >> >>},
     p \in {<< >>, << WorkspaceRoot :> << << "s1" >> >> >>,
            << ("/other" :> << << "s1" >> >>) @@ (WorkspaceRoot :> << >>) >>}}

\* the lines CODEX_CONFIG_FILE may hold when the bridge starts
TomlFiles ==
  LET section(id) == [kind |-> "section", name |-> id,
                      value |-> [quoted |-> FALSE, body |-> ""]]
      kv(key, quoted, body) == [kind |-> "kv", name |-> key,
                                value |-> [quoted |-> quoted, body |-> body]]
  IN {<< >>,
      << << section("s1"), kv("command", TRUE, "cmd") >> >>,
      << << section("s1"), kv("enabled", FALSE, "false"), section("s2") >> >>,
      << << section("s2"), kv("enabled", TRUE, "false") >> >>}

\* the provider files of a fresh installation
NoProviders ==
  /\ codemossConfig = [current |-> "", providers |-> EmptyDoc]
  /\ codexConfig = [current |-> Missing, providers |-> EmptyDoc]
  /\ codemossSettings = [activeClaudeProviderId |-> "", activeCodexProvider |-> ""]
  /\ providersFile = << >>
  /\ codexProvidersFile = << >>

McpInit ==
  /\ NoProviders
  /\ SkillsIdle
  /\ claudeJson \in {<< >>} \cup {<< doc >> : doc \in ClaudeJsonDocs}
  /\ configMcpServers \in
       {<< >>, << << [id |-> "s1", server |-> "stdio", enabled |-> FALSE] >> >>}
  /\ legacyMcpServers \in {<< >>, << [id |-> "s2", server |-> "stdio", enabled |-> TRUE] >>}
  /\ codexConfigToml = << >>
  /\ claudeSettingsFile \in {<< >>, << "disabledMcpServers" :> << "s1" >> >>}
  /\ PlumbingInit
  /\ Started

McpNext == McpLine

InitMcp == SupInit /\ StrIdle /\ FrIdle /\ McpInit /\ FnIdle /\ AgIdle

SpecMcp == InitMcp /\ [][McpNext]_vars

CodexMcpInit ==
  /\ NoProviders
  /\ SkillsIdle
  /\ claudeJson = << >>
  /\ configMcpServers = << >>
  /\ legacyMcpServers = << >>
  /\ codexConfigToml \in TomlFiles
  /\ claudeSettingsFile = << >>
  /\ PlumbingInit
  /\ Started

CodexMcpNext == CodexMcpLine

InitCodexMcp == SupInit /\ StrIdle /\ FrIdle /\ CodexMcpInit /\ FnIdle /\ AgIdle

SpecCodexMcp == InitCodexMcp /\ [][CodexMcpNext]_vars

\* ------------------------------------------------------------------------
\* The skills
\* ------------------------------------------------------------------------

SkillMessage(type, name, scope, enabled, paths, requestId) ==
  [type |-> type,
   content |-> [id |-> "", name |-> name, scope |-> scope, enabled |-> enabled,
                paths |-> paths],
   requestId |-> requestId]

SkillMessages ==
  {SkillMessage(type, "k1", scope, enabled, << >>, 1) :
     type \in {"toggleSkill", "deleteSkill"}, scope \in {"global", "local"},
     enabled \in BOOLEAN}
  \cup {SkillMessage("importSkill", "k1", scope, TRUE, paths, 1) :
          scope \in {"global", "local"},
          paths \in {<< >>, << "/src/k1" >>, << "/src/none" >>}}

\* one skill message arrives on the bridge's stdin; the file system fails only
\* under the directories of the global scope
SkillLine ==
  \E message \in SkillMessages, fault \in Faults :
    /\ message.content.scope = "local" => fault = NoFault
    /\ onLine(message, TRUE, fault)
    /\ UNCHANGED << _webview, stdin, routed, replied >>
    /\ UNCHANGED rtOthers

\* the entries a skill may be when the bridge starts
SkillEntries ==
  {[isDirectory |-> TRUE, files |-> {"SKILL.md", "a.txt"}],
   [isDirectory |-> FALSE, files |-> {"SKILL.md"}]}

\* a scope at start: the skill is nowhere, or in exactly one of its directories
ScopesAtStart ==
  {[active |-> EmptyDoc, management |-> EmptyDoc]}
  \cup {[active |-> "k1" :> entry, management |-> EmptyDoc] : entry \in SkillEntries}
  \cup {[active |-> EmptyDoc, management |-> "k1" :> entry] : entry \in SkillEntries}

SkillsInit ==
  /\ NoProviders
  /\ McpIdle
  /\ skillDirs \in {[global |-> g, local |-> l] :
                      g \in ScopesAtStart, l \in {NoSkills["local"]}}
  /\ claudeSettingsFile = << >>
  /\ PlumbingInit
  /\ Started

SkillsNext == SkillLine

InitSkills == SupInit /\ StrIdle /\ FrIdle /\ SkillsInit /\ FnIdle /\ AgIdle

SpecSkills == InitSkills /\ [][SkillsNext]_vars

\* ------------------------------------------------------------------------
\* Migration at process start and the two provider families
\* ------------------------------------------------------------------------

\* the loop of migrateLegacyProvidersToConfig over a legacy list: an entry
\* with a non-empty string id is copied under its id, a later entry replacing
\* an earlier one with the same id
RECURSIVE copyLegacy(_, _)
copyLegacy(providers, list) ==
  IF list = << >> THEN providers
  ELSE LET p == Head(list)
           entry == [k \in DOMAIN p \ {"id"} |-> p[k]]
       IN copyLegacy(IF p.id = "" THEN providers
                     ELSE [k \in DOMAIN providers \cup {p.id} |->
                             IF k = p.id THEN entry ELSE providers[k]],
                     Tail(list))

\* a plausible defect: the legacy lists replace the canonical maps whenever
\* they have entries
migrateOverwriting(files) ==
  LET claude == ensureClaudeSection(files.config)
      codex == ensureCodexSection(files.codex)
      config == [claude EXCEPT !.providers =
                   IF Len(files.legacy) > 0 THEN copyLegacy(EmptyDoc, files.legacy) ELSE @]
      codex2 == [codex EXCEPT !.providers =
                   IF Len(files.codexLegacy) > 0
                     THEN copyLegacy(EmptyDoc, files.codexLegacy) ELSE @]
  IN syncLegacyProviderFilesFromConfig(
       [files EXCEPT !.config = config, !.codex = codex2], config)

migrateLegacyProvidersToConfig(files) ==
  LET claude == ensureClaudeSection(files.config)
      codex == ensureCodexSection(files.codex)
      copyClaude == DOMAIN claude.providers = {} /\ Len(files.legacy) > 0
      copyCodex == DOMAIN codex.providers = {} /\ Len(files.codexLegacy) > 0
      claude2 == IF copyClaude
                   THEN [claude EXCEPT !.providers = copyLegacy(@, files.legacy)]
                   ELSE claude
      codex2 == IF copyCodex
                  THEN [codex EXCEPT !.providers = copyLegacy(@, files.codexLegacy)]
                  ELSE codex
      \* both tests read the sections ensureClaudeSection and ensureCodexSection
      \* have already filled in
      hintClaude == claude2.current = "" /\ files.settings.activeClaudeProviderId # ""
      hintCodex == codex2.current = Missing /\ files.settings.activeCodexProvider # ""
      claude3 == IF hintClaude
                   THEN [claude2 EXCEPT !.current = files.settings.activeClaudeProviderId]
                   ELSE claude2
      codex3 == IF hintCodex
                  THEN [codex2 EXCEPT !.current = files.settings.activeCodexProvider]
                  ELSE codex2
      changed == copyClaude \/ copyCodex \/ hintClaude \/ hintCodex
  IN IF changed
       THEN syncLegacyProviderFilesFromConfig(
              [files EXCEPT !.config = claude3, !.codex = codex3], claude3)
       ELSE files

\* module initialisation of server.js: the migration runs once, before any line is read
Migrate ==
  \E files \in {migrateLegacyProvidersToConfig(Files)} :
    /\ ~serverStarted
    /\ serverStarted' = TRUE
    /\ codemossConfig' = files.config
    /\ codexConfig' = files.codex
    /\ codemossSettings' = files.settings
    /\ providersFile' = files.legacy
    /\ codexProvidersFile' = files.codexLegacy
    /\ claudeSettingsFile' = files.claude
    /\ UNCHANGED << mcpFileVars, skillDirs, atStart, lastOut, lastReq, lastThrew, crashed, merged,
                    _webview, stdin, routed, replied >>
    /\ UNCHANGED rtOthers

CodexMessage(type, id, data, requestId) ==
  [type |-> type, content |-> [id |-> id, data |-> data], requestId |-> requestId]

ImportMessage(providers, requestId) ==
  [type |-> "saveImportedProviders", content |-> [id |-> "", providers |-> providers],
   requestId |-> requestId]

CodexData == {"d1", "d2"}

FamilyMessages ==
  {Message(type, "", EmptyDoc, 1) :
     type \in {"getProviders", "getCurrentClaudeConfig", "getActiveProvider"}}
  \cup {Message(type, id, EmptyDoc, 1) :
          type \in {"switchProvider", "deleteProvider"}, id \in ProviderIds}
  \cup {Message("addProvider", "p1", PatchA, 1), Message("updateProvider", "p1", PatchB, 1),
        Message("addProvider", "", PatchA, 1)}
  \cup {CodexMessage("getCodexProviders", "", "d1", 1)}
  \cup {CodexMessage(type, id, "d1", 1) :
          type \in {"switchCodexProvider", "deleteCodexProvider"},
          id \in {CodexIdOrder[i] : i \in 1..Len(CodexIdOrder)}}
  \cup {CodexMessage("addCodexProvider", "c1", "d1", 1),
        CodexMessage("updateCodexProvider", "c1", "d2", 1)}
  \cup {ImportMessage(<< [id |-> "", settingsConfig |-> PatchA],
                         [id |-> "p1", settingsConfig |-> PatchB] >>, 1)}

\* one provider message of either family arrives on the bridge's stdin
FamilyLine ==
  \E message \in FamilyMessages :
    /\ onLine(message, TRUE, NoFault)
    /\ UNCHANGED << _webview, stdin, routed, replied >>
    /\ UNCHANGED rtOthers

\* the files a previous version or a previous run may have left behind
LegacyLists ==
  {<< >>,
   << [id |-> "p1", settingsConfig |-> PatchB] >>,
   << [id |-> "", settingsConfig |-> PatchA], [id |-> "p1", settingsConfig |-> PatchA] >>}

CodexLegacyLists == {<< >>, << [id |-> "", data |-> "d2"], [id |-> "c1", data |-> "d2"] >>}

FamInit ==
  /\ codemossConfig \in
       {[current |-> c, providers |-> P] :
          c \in {"", "p1"},
          P \in {EmptyDoc, "p1" :> [settingsConfig |-> PatchA]}}
  /\ codexConfig \in
       {[current |-> c, providers |-> P] :
          c \in {Missing, "", "c1"},
          P \in {EmptyDoc, "c1" :> [data |-> "d1"]}}
  /\ codemossSettings \in
       {[activeClaudeProviderId |-> a, activeCodexProvider |-> b] :
          a \in {"", "p1"}, b \in {"", "c1"}}
  /\ providersFile \in LegacyLists
  /\ codexProvidersFile \in CodexLegacyLists
  /\ claudeSettingsFile = << EmptyDoc >>
  /\ McpIdle
  /\ SkillsIdle
  /\ serverStarted = FALSE
  /\ atStart = Files
  /\ PlumbingInit

FamNext == Migrate \/ FamilyLine

InitFamilies == SupInit /\ StrIdle /\ FrIdle /\ FamInit /\ FnIdle /\ AgIdle

SpecFamilies == InitFamilies /\ [][FamNext]_vars

(***************************************************************************)
(* The host's router (MessageRouter.route) in front of the bridge          *)
(***************************************************************************)
\* message types the webview hands to route(): with a handler that answers, with
\* a handler that answers on failure only, with a handler that never answers, with
\* a handler that forwards, and without a handler (forwarded by the else branch)
AnsweringTypes == {"test", "getWorkingDirectory"}
FailureOnlyTypes == {"openFile", "showDiff"}
SilentTypes == {"openBrowser", "refreshFile"}
RoutedTypes == AnsweringTypes \cup FailureOnlyTypes \cup SilentTypes
                 \cup {"getSettings", "getProviders", "frobnicate"}

\* a string inside JSON text: a newline and a backslash are written escaped
RECURSIVE escapeJson(_)
escapeJson(text) ==
  IF text = << >> THEN << >>
  ELSE (IF Head(text) = "\n" THEN << "\\", "n" >>
        ELSE IF Head(text) = "\\" THEN << "\\", "\\" >>
        ELSE << Head(text) >>) \o escapeJson(Tail(text))

\* the text of a message's content, for the messages that carry one
textOf(message) ==
  IF "text" \in DOMAIN message.content THEN message.content.text ELSE << >>

\* JSON.stringify(message), as fragments: type, text and requestId between braces
stringify(message) ==
  << "{", message.type, "\"" >> \o escapeJson(textOf(message))
    \o << "\"", ToString(message.requestId), "}" >>

\* what a call of send leaves: its result, whether an exception left it, and
\* the writes to the stdin of the children
sent(result, writes) == [result |-> result, threw |-> FALSE, stdin |-> writes]

\* a plausible defect: the guard tests _process only
sendIgnoringIsRunning(message, serializable) ==
  IF _process = 0 THEN sent(FALSE, stdin)
  ELSE IF ~serializable THEN sent(FALSE, stdin)
  ELSE sent(TRUE, Append(stdin, [message |-> message, proc |-> _process,
                                 data |-> stringify(message) \o << "\n" >>]))

\* a plausible defect: the line is written without its newline
sendWithoutNewline(message, serializable) ==
  IF _process = 0 \/ ~_isRunning THEN sent(FALSE, stdin)
  ELSE IF ~serializable THEN sent(FALSE, stdin)
  ELSE sent(TRUE, Append(stdin, [message |-> message, proc |-> _process,
                                 data |-> stringify(message)]))

\* BridgeManager.send(message): false, and nothing written, unless a child is
\* attached and running; JSON.stringify throws for a message that cannot be
\* serialized (serializable = FALSE), inside the try, and send returns false;
\* otherwise one write of the text and a newline
send(message, serializable) ==
  IF _process = 0 \/ ~_isRunning THEN sent(FALSE, stdin)
  ELSE IF ~serializable THEN sent(FALSE, stdin)
  ELSE sent(TRUE, Append(stdin, [message |-> message, proc |-> _process,
                                 data |-> stringify(message) \o << "\n" >>]))

\* the view is resolved, after activate() called start(): setWebview(webview)
SetWebview ==
  /\ spawnCount > 0
  /\ _webview' = TRUE
  /\ UNCHANGED << fileVars, lastOut, lastReq, lastThrew, crashed, merged, stdin, routed,
                  replied >>
  /\ UNCHANGED rtOthers

\* the webview posts a message: route(message) runs the handler of its type or
\* forwards it to the bridge
route(message, success) ==
  LET type == message.type
      requestId == message.requestId
  IN IF type \in AnsweringTypes
       THEN replied' = replied \cup {requestId} /\ UNCHANGED stdin
     ELSE IF type \in FailureOnlyTypes
       THEN /\ replied' = IF success THEN replied ELSE replied \cup {requestId}
            /\ UNCHANGED stdin
     ELSE IF type \in SilentTypes
       THEN UNCHANGED << replied, stdin >>
     ELSE stdin' = send(message, TRUE).stdin /\ UNCHANGED replied

Route ==
  \E type \in RoutedTypes, success \in BOOLEAN :
    /\ _webview
    /\ routed < MaxMsgs
    /\ type \notin FailureOnlyTypes => success
    /\ routed' = routed + 1
    /\ route(Message(type, "", EmptyDoc, routed + 1), success)
    /\ UNCHANGED << fileVars, lastOut, lastReq, lastThrew, crashed, merged, _webview >>
    /\ UNCHANGED rtOthers

\* a live child reads the oldest line of its stdin and handles it
ReadLine ==
  \E i \in 1..Len(stdin) :
    /\ procState[stdin[i].proc] = "alive"
    /\ \A j \in 1..(i - 1) : procState[stdin[j].proc] # "alive"
    /\ onLine(stdin[i].message, TRUE, NoFault)
    /\ stdin' = removeAt(stdin, i)
    /\ replied' = replied \cup {lastOut'[k].rid : k \in 1..Len(lastOut')}
    /\ UNCHANGED << _webview, routed >>
    /\ UNCHANGED rtOthers

RouterNext == Start \/ ChildExit \/ TimerFire \/ SetWebview \/ Route \/ ReadLine

InitRouter == SupInit /\ StrIdle /\ FrIdle /\ RtIdle /\ FnIdle /\ AgIdle

SpecRouter == InitRouter /\ [][RouterNext]_vars

\* C6: every message handed to the router that is not waiting on a child's stdin
\* any more has at least one outbound envelope carrying its requestId.
C6_EveryMessageAnswered ==
  \A requestId \in 1..routed :
    (\A i \in 1..Len(stdin) : stdin[i].message.requestId # requestId)
      => requestId \in replied

(***************************************************************************)
(* Properties of the dispatcher and of the provider handlers               *)
(***************************************************************************)
errorEnvelopes == {i \in 1..Len(lastOut) : lastOut[i].type = "error"}

\* C7: when a handler threw while handleMessage processed the last message, exactly
\* one envelope of type 'error' was written, it carries the requestId of that
\* message, the exception did not leave handleMessage and the process is alive to
\* serve later messages.
C7_ThrowBecomesOneErrorEnvelope ==
  lastThrew =>
    /\ Cardinality(errorEnvelopes) = 1
    /\ \A i \in errorEnvelopes : lastOut[i].rid = lastReq.requestId
    /\ ~crashed

\* a handler threw (writeClaudeSettings failed during a provider switch) and the
\* error envelope of that request is on stdout
C7_Witness ==
  /\ lastThrew
  /\ lastReq.type = "switchProvider"
  /\ \E i \in 1..Len(lastOut) : lastOut[i].type = "error" /\ lastOut[i].rid = lastReq.requestId

\* C9: the document a handler wrote to the native settings file keeps every key
\* of the base that the patch lacks, has the patch's value for every non-env key of
\* the patch, and its env is the union of both env maps with the patch winning.
C9_MergePreservesAndUnions ==
  merged # << >> =>
    LET base == merged[1]
        patch == merged[2]
        result == claudeSettingsFile[1]
        envOf(doc) == IF "env" \in DOMAIN doc THEN doc["env"] ELSE EmptyDoc
    IN /\ DOMAIN result = DOMAIN base \cup DOMAIN patch
       /\ \A key \in DOMAIN base \ DOMAIN patch : result[key] = base[key]
       /\ \A key \in DOMAIN patch \ {"env"} : result[key] = patch[key]
       /\ "env" \in DOMAIN patch =>
            /\ DOMAIN result["env"] = DOMAIN envOf(base) \cup DOMAIN patch["env"]
            /\ \A name \in DOMAIN patch["env"] : result["env"][name] = patch["env"][name]
            /\ \A name \in DOMAIN envOf(base) \ DOMAIN patch["env"] :
                 result["env"][name] = base["env"][name]

\* a switch or update merged a patch with an env into a base whose env has a name
\* the patch lacks and that has a key the patch lacks
C9_Witness ==
  /\ merged # << >>
  /\ lastReq.type \in {"switchProvider", "updateProvider"}
  /\ "env" \in DOMAIN merged[1]
  /\ "env" \in DOMAIN merged[2]
  /\ DOMAIN merged[1]["env"] \ DOMAIN merged[2]["env"] # {}
  /\ DOMAIN merged[1]["env"] \cap DOMAIN merged[2]["env"] # {}
  /\ DOMAIN merged[1] \ DOMAIN merged[2] # {}

\* C10: every list of providers sent to the host contains the native entry and
\* exactly one entry flagged isActive; when the stored active id matches no explicit
\* provider, the flagged entry is the native one.
C10_ExactlyOneActive ==
  \A i \in 1..Len(lastOut) :
    lastOut[i].type = "providersLoaded" =>
      LET list == lastOut[i].frags
          flagged == {j \in 1..Len(list) : list[j].isActive}
      IN /\ \E j \in 1..Len(list) : list[j].isLocalProvider
         /\ Cardinality(flagged) = 1
         /\ codemossConfig.current \notin DOMAIN codemossConfig.providers =>
              \A j \in flagged : list[j].isLocalProvider

\* the lists of the given type the last message was answered with
listsOf(type) == {lastOut[i].frags : i \in {j \in 1..Len(lastOut) : lastOut[j].type = type}}

JustMigrated == serverStarted /\ lastReq.type = ""

\* C12: right after the migration, a service whose settings.json held a legacy
\* active id while its canonical section had no current pointer has that id as
\* its canonical current pointer.
C12_LegacyHintSeedsPointer ==
  JustMigrated =>
    /\ (atStart.settings.activeClaudeProviderId # "" /\ atStart.config.current = "") =>
         codemossConfig.current = atStart.settings.activeClaudeProviderId
    /\ (atStart.settings.activeCodexProvider # "" /\ atStart.codex.current = Missing) =>
         codexConfig.current = atStart.settings.activeCodexProvider

\* the entries of a legacy list that have a non-empty id
validEntries(list) == {i \in 1..Len(list) : list[i].id # ""}

\* C13: right after the migration, for each service: when the canonical map was
\* empty and the legacy file listed entries, every legacy entry with a non-empty
\* id is in the canonical map under its id with the values of a legacy entry of
\* that id; when the canonical map was not empty, it is unchanged.
C13_MigrationCopiesIntoEmptyMapOnly ==
  JustMigrated =>
    /\ (DOMAIN atStart.config.providers = {} /\ Len(atStart.legacy) > 0) =>
         \A i \in validEntries(atStart.legacy) :
           /\ atStart.legacy[i].id \in DOMAIN codemossConfig.providers
           /\ \E j \in validEntries(atStart.legacy) :
                /\ atStart.legacy[j].id = atStart.legacy[i].id
                /\ codemossConfig.providers[atStart.legacy[i].id].settingsConfig
                     = atStart.legacy[j].settingsConfig
    /\ DOMAIN atStart.config.providers # {} =>
         codemossConfig.providers = atStart.config.providers
    /\ (DOMAIN atStart.codex.providers = {} /\ Len(atStart.codexLegacy) > 0) =>
         \A i \in validEntries(atStart.codexLegacy) :
           /\ atStart.codexLegacy[i].id \in DOMAIN codexConfig.providers
           /\ codexConfig.providers[atStart.codexLegacy[i].id].data
                = atStart.codexLegacy[i].data
    /\ DOMAIN atStart.codex.providers # {} =>
         codexConfig.providers = atStart.codex.providers

\* the migration copied a legacy Claude list that also had an entry without id
\* into an empty canonical map, and left a non-empty Codex map alone although
\* the legacy Codex file listed a different entry for the same id
C13_Witness ==
  /\ JustMigrated
  /\ DOMAIN atStart.config.providers = {}
  /\ Len(atStart.legacy) > Cardinality(validEntries(atStart.legacy))
  /\ DOMAIN codemossConfig.providers = {"p1"}
  /\ DOMAIN atStart.codex.providers # {}
  /\ Len(atStart.codexLegacy) > 0
  /\ codexConfig.providers["c1"].data # atStart.codexLegacy[2].data

\* the message types that add, update, delete, switch or import a provider
MutatingTypes ==
  {"addProvider", "updateProvider", "deleteProvider", "switchProvider",
   "saveImportedProviders", "addCodexProvider", "updateCodexProvider",
   "deleteCodexProvider", "switchCodexProvider"}

\* a legacy list holds one entry per key of the canonical map, with its values
mirrors(list, providers, field) ==
  /\ {list[i].id : i \in 1..Len(list)} = DOMAIN providers
  /\ Len(list) = Cardinality(DOMAIN providers)
  /\ \A i \in 1..Len(list) : list[i][field] = providers[list[i].id][field]

\* C14: after the migration, every add, update, delete, switch or import leaves
\* each legacy file listing exactly the providers of the canonical map of its
\* service, and the provider name in a currentClaudeConfigLoaded reply is the one
\* the canonical map gives for the reported id, whatever the legacy file holds.
C14_LegacyFilesAreMirrors ==
  serverStarted =>
    /\ lastReq.type \in MutatingTypes =>
         /\ mirrors(providersFile, codemossConfig.providers, "settingsConfig")
         /\ mirrors(codexProvidersFile, codexConfig.providers, "data")
    /\ \A i \in 1..Len(lastOut) :
         lastOut[i].type = "currentClaudeConfigLoaded" =>
           LET c == lastOut[i].frags[1]
           IN c.providerName =
                IF c.providerId = LocalProviderId THEN "settings.json"
                ELSE IF c.providerId \in DOMAIN codemossConfig.providers
                  THEN c.providerId ELSE ""

ToggleTypes == {"toggleMcpServer", "toggleCodexMcpServer"}

opposite(enabled) == IF enabled = "true" THEN "false" ELSE "true"

\* the last message toggled a server that a read of its service listed
ToggledExisting == lastReq.type \in ToggleTypes /\ lastReq.wasEnabled # "none"

\* C15: after a toggle of a server that its service listed, a read of the
\* service reports the server with the opposite enabled value; and when the
\* same server is toggled again right away, the read reports the value it had
\* before the first toggle.
C15_ToggleFlipsAndTwiceRestores ==
  /\ [](ToggledExisting =>
          reportedEnabled(lastReq.type, lastReq.id, Files) = opposite(lastReq.wasEnabled))
  /\ [][(/\ ToggledExisting
          /\ ToggledExisting'
          /\ lastReq'.type = lastReq.type
          /\ lastReq'.id = lastReq.id)
         => reportedEnabled(lastReq.type, lastReq.id, Files') = lastReq.wasEnabled]_vars

\* the last message was a deleteMcpServer that was answered with mcpServerDeleted
DeletedMcpServer ==
  /\ lastReq.type = "deleteMcpServer"
  /\ \E i \in 1..Len(lastOut) : lastOut[i].type = "mcpServerDeleted"

\* the places of CLAUDE_JSON_FILE that name the server id
referencesTo(id) ==
  IF claudeJson = << >> THEN {}
  ELSE LET doc == claudeJson[1]
           inList(list) == \E i \in 1..Len(list) : list[i] = id
       IN (IF doc.mcpServers # << >> /\ id \in DOMAIN doc.mcpServers[1]
             THEN {"mcpServers"} ELSE {})
          \cup (IF doc.disabledMcpServers # << >> /\ inList(doc.disabledMcpServers[1])
                  THEN {"disabledMcpServers"} ELSE {})
          \cup (IF doc.projects # << >>
                  THEN {path \in DOMAIN doc.projects[1] :
                          doc.projects[1][path] # << >> /\ inList(doc.projects[1][path][1])}
                  ELSE {})

\* C16: after a deleteMcpServer(id) that succeeded, id is no key of the server
\* map, no element of the global disabled list and no element of the disabled
\* list of any project, and a read of the servers lists no server id.
C16_DeleteLeavesNoReference ==
  DeletedMcpServer =>
    /\ referencesTo(lastReq.id) = {}
    /\ reportedEnabled(lastReq.type, lastReq.id, Files) = "none"

\* the result the last skill message was answered with
skillResult == lastOut[1].frags[1]

\* C17: in each scope, no skill name is an entry of both the active and the
\* management directory.
C17_SkillInOneDirectory ==
  \A scope \in DOMAIN skillDirs :
    DOMAIN skillDirs[scope].active \cap DOMAIN skillDirs[scope].management = {}

\* the directory a toggle moves the skill out of and the one it moves it into
sourceOf(skill) == IF skill.enabled THEN "active" ELSE "management"

targetOf(skill) == IF skill.enabled THEN "management" ELSE "active"

\* the step handles a toggleSkill whose destination already has the name
ToggleOntoExisting ==
  /\ lastReq'.type = "toggleSkill"
  /\ lastReq'.skill.name \in DOMAIN skillDirs[lastReq'.skill.scope][targetOf(lastReq'.skill)]

\* the step handles a toggleSkill whose source has the name
ToggleOfExisting ==
  /\ lastReq'.type = "toggleSkill"
  /\ lastReq'.skill.name \in DOMAIN skillDirs[lastReq'.skill.scope][sourceOf(lastReq'.skill)]

ToggledSkill == lastReq.type = "toggleSkill" /\ skillResult.success

\* the step handles a toggleSkill that reports success
TogglesSkill == lastReq'.type = "toggleSkill" /\ lastOut'[1].frags[1].success

\* the skill of the request is in the one directory and not in the other
onlyIn(dirs, skill, where) ==
  /\ skill.name \in DOMAIN dirs[skill.scope][where]
  /\ skill.name \notin DOMAIN dirs[skill.scope][IF where = "active" THEN "management"
                                                 ELSE "active"]

\* C19: after a successful enable the skill is in the active directory and not
\* in the management directory, after a successful disable the converse; a
\* successful enable or disable carries the entry over as it was, and one that
\* follows a successful opposite operation puts the skill back where it started.
C19_SkillEndsWhereLastRequested ==
  /\ [](ToggledSkill => onlyIn(skillDirs, lastReq.skill, targetOf(lastReq.skill)))
  /\ [][TogglesSkill =>
          /\ lastReq'.skill.name
                \in DOMAIN skillDirs[lastReq'.skill.scope][sourceOf(lastReq'.skill)]
          /\ skillDirs'[lastReq'.skill.scope][targetOf(lastReq'.skill)][lastReq'.skill.name]
               = skillDirs[lastReq'.skill.scope][sourceOf(lastReq'.skill)][lastReq'.skill.name]
          /\ \A scope \in DOMAIN skillDirs \ {lastReq'.skill.scope} :
               skillDirs'[scope] = skillDirs[scope]
          /\ (/\ ToggledSkill
              /\ lastReq.skill.name = lastReq'.skill.name
              /\ lastReq.skill.scope = lastReq'.skill.scope
              /\ lastReq.skill.enabled # lastReq'.skill.enabled)
               => onlyIn(skillDirs', lastReq.skill, sourceOf(lastReq.skill))]_vars

\* a disable of a skill directory succeeded through the copy-then-delete
\* fallback, and the skill is in the management directory only
C19_Witness ==
  /\ ToggledSkill
  /\ lastReq.skill.enabled
  /\ lastReq.fault.op = "rename"
  /\ onlyIn(skillDirs, lastReq.skill, "management")
  /\ skillDirs[lastReq.skill.scope].management[lastReq.skill.name].isDirectory

\* the step handles a toggleSkill that gets past the existence tests, its
\* renameSync throws and the copy of the fallback throws before completing
CopyFailsInFallback ==
  /\ ToggleOfExisting
  /\ ~ToggleOntoExisting
  /\ lastReq'.fault.op # "none"
  /\ copyDirectory(skillDirs[lastReq'.skill.scope][sourceOf(lastReq'.skill)]
                             [lastReq'.skill.name], lastReq'.fault).threw

\* C20: when renameSync throws and the copy of the fallback throws before it
\* completes, the source directory still has the skill with all its contents
\* and the reply reports failure.
C20_FailedCopyKeepsSource ==
  [][CopyFailsInFallback =>
       /\ skillDirs'[lastReq'.skill.scope][sourceOf(lastReq'.skill)]
            = skillDirs[lastReq'.skill.scope][sourceOf(lastReq'.skill)]
       /\ ~lastOut'[1].frags[1].success]_vars

\* an enable failed after the fallback had copied one file of two: the
\* management directory has the whole skill, the active directory a part of it
C20_Witness ==
  /\ lastReq.type = "toggleSkill"
  /\ ~lastReq.skill.enabled
  /\ lastReq.fault = [op |-> "copy", after |-> 1]
  /\ ~skillResult.success
  /\ ~skillResult.conflict
  /\ lastReq.skill.name \in DOMAIN skillDirs[lastReq.skill.scope].management
  /\ skillDirs[lastReq.skill.scope].management[lastReq.skill.name].files
       = {"SKILL.md", "a.txt"}
  /\ lastReq.skill.name \in DOMAIN skillDirs[lastReq.skill.scope].active
  /\ skillDirs[lastReq.skill.scope].active[lastReq.skill.name].files = {"SKILL.md"}

(***************************************************************************)
(* toml-utils.js on the text of the file.  A text is a sequence of         *)
(* characters.  A JavaScript value is a record with one field that names   *)
(* its type: [str |-> text], [num |-> integer], [bool |-> boolean],        *)
(* [list |-> sequence of values], [map |-> function from keys to values].  *)
(* Object.entries lists the keys of a map in the order of KeyOrder.        *)
(***************************************************************************)
\* longest list among the values of a configuration
MaxListLen == 2
\* nesting of lists and maps below the entries of a configuration
MaxDepth == 1

KeyOrder == << << "a" >>, << "b" >> >>

Digits == << "0", "1", "2", "3", "4", "5", "6", "7", "8", "9" >>

isMap(value) == DOMAIN value = {"map"}

isList(value) == DOMAIN value = {"list"}

\* the keys of a map in the order Object.entries lists them
keysOf(value) == SelectSeq(KeyOrder, LAMBDA k : k \in DOMAIN value.map)

\* Array.prototype.join
RECURSIVE join(_, _)
join(texts, sep) ==
  IF texts = << >> THEN << >>
  ELSE IF Len(texts) = 1 THEN texts[1]
  ELSE texts[1] \o sep \o join(Tail(texts), sep)

\* String.prototype.split(sep) for a separator of one character
RECURSIVE split(_, _, _)
split(str, sep, cur) ==
  IF str = << >> THEN << cur >>
  ELSE IF Head(str) = sep THEN << cur >> \o split(Tail(str), sep, << >>)
  ELSE split(Tail(str), sep, Append(cur, Head(str)))

\* String.prototype.indexOf(ch), counted from 0; -1 when absent
indexOf(str, ch) ==
  IF \E i \in 1..Len(str) : str[i] = ch
    THEN (CHOOSE i \in 1..Len(str) : str[i] = ch /\ \A j \in 1..(i - 1) : str[j] # ch) - 1
    ELSE -1

\* str.startsWith(a) && str.endsWith(b) for characters a and b
enclosed(str, a, b) == str # << >> /\ str[1] = a /\ str[Len(str)] = b

\* str.slice(1, -1)
inner(str) == SubSeq(str, 2, Len(str) - 1)

\* String(n) of an integer
RECURSIVE digitsOf(_)
digitsOf(n) ==
  IF n < 10 THEN << Digits[n + 1] >> ELSE Append(digitsOf(n \div 10), Digits[(n % 10) + 1])

numberToString(n) == IF n < 0 THEN << "-" >> \o digitsOf(-n) ELSE digitsOf(n)

\* Number(str) of a text of decimal digits with an optional sign: << n >>; << >>
\* stands for NaN, the result for every other text of the characters modelled
RECURSIVE valueOfDigits(_, _)
valueOfDigits(str, acc) ==
  IF str = << >> THEN acc
  ELSE valueOfDigits(Tail(str),
                     10 * acc + (CHOOSE d \in 0..9 : Digits[d + 1] = Head(str)))

stringToNumber(str) ==
  LET unsigned == IF str # << >> /\ str[1] = "-" THEN Tail(str) ELSE str
  IN IF unsigned # << >> /\ \A i \in 1..Len(unsigned) : \E d \in 1..10 : Digits[d] = unsigned[i]
       THEN << IF unsigned = str THEN valueOfDigits(unsigned, 0)
               ELSE -valueOfDigits(unsigned, 0) >>
       ELSE << >>

RECURSIVE unescapeFrom(_, _, _)
unescapeFrom(value, result, escaped) ==
  IF value = << >> THEN IF escaped THEN Append(result, "\\") ELSE result
  ELSE LET ch == Head(value)
       IN IF escaped
            THEN unescapeFrom(Tail(value),
                              result \o (CASE ch = "n" -> << "\n" >>
                                           [] ch = "t" -> << "\t" >>
                                           [] ch = "r" -> << "\r" >>
                                           [] ch \in {"\\", "\"", "'"} -> << ch >>
                                           [] OTHER -> << "\\", ch >>),
                              FALSE)
          ELSE IF ch = "\\" THEN unescapeFrom(Tail(value), result, TRUE)
          ELSE unescapeFrom(Tail(value), Append(result, ch), FALSE)

unescapeTomlString(value) == unescapeFrom(value, << >>, FALSE)

RECURSIVE escapeTomlString(_)
escapeTomlString(value) ==
  IF value = << >> THEN << >>
  ELSE (CASE Head(value) = "\\" -> << "\\", "\\" >>
          [] Head(value) = "\"" -> << "\\", "\"" >>
          [] Head(value) = "\n" -> << "\\", "n" >>
          [] Head(value) = "\t" -> << "\\", "t" >>
          [] Head(value) = "\r" -> << "\\", "r" >>
          [] OTHER -> << Head(value) >>)
       \o escapeTomlString(Tail(value))

\* the loop of splitTomlElements; st is [result, current, depth, inDouble,
\* inSingle, escaped]
RECURSIVE splitElementsFrom(_, _, _)
splitElementsFrom(content, delimiter, st) ==
  IF content = << >>
    THEN IF st.current # << >> THEN Append(st.result, st.current) ELSE st.result
  ELSE LET ch == Head(content)
           more == [st EXCEPT !.current = Append(@, ch)]
           next ==
             IF st.escaped THEN [more EXCEPT !.escaped = FALSE]
             ELSE IF ch = "\\" THEN [more EXCEPT !.escaped = TRUE]
             ELSE IF ch = "\"" /\ ~st.inSingle THEN [more EXCEPT !.inDouble = ~@]
             ELSE IF ch = "'" /\ ~st.inDouble THEN [more EXCEPT !.inSingle = ~@]
             ELSE IF ~st.inDouble /\ ~st.inSingle
               THEN IF ch \in {"[", "{"} THEN [more EXCEPT !.depth = @ + 1]
                    ELSE IF ch \in {"]", "}"} THEN [more EXCEPT !.depth = @ - 1]
                    ELSE IF ch = delimiter /\ st.depth = 0
                      THEN [st EXCEPT !.result = Append(@, st.current), !.current = << >>]
                    ELSE more
             ELSE more
       IN splitElementsFrom(Tail(content), delimiter, next)

splitTomlElements(content, delimiter) ==
  splitElementsFrom(content, delimiter,
                    [result |-> << >>, current |-> << >>, depth |-> 0,
                     inDouble |-> FALSE, inSingle |-> FALSE, escaped |-> FALSE])

RECURSIVE parseTomlValueText(_)
RECURSIVE parseTomlArray(_)
RECURSIVE parseTomlInlineTable(_)
RECURSIVE inlineTableFrom(_, _)

parseTomlValueText(valueStr) ==
  IF valueStr = << >> THEN [str |-> << >>]
  ELSE IF valueStr = << "t", "r", "u", "e" >> THEN [bool |-> TRUE]
  ELSE IF valueStr = << "f", "a", "l", "s", "e" >> THEN [bool |-> FALSE]
  ELSE IF enclosed(valueStr, "[", "]") THEN parseTomlArray(valueStr)
  ELSE IF enclosed(valueStr, "{", "}") THEN parseTomlInlineTable(valueStr)
  ELSE IF enclosed(valueStr, "\"", "\"") \/ enclosed(valueStr, "'", "'")
    THEN [str |-> unescapeTomlString(inner(valueStr))]
  ELSE IF stringToNumber(valueStr) # << >> THEN [num |-> stringToNumber(valueStr)[1]]
  ELSE [str |-> valueStr]

parseTomlArray(arrayStr) ==
  LET content == trim(inner(arrayStr))
  IN IF content = << >> THEN [list |-> << >>]
     ELSE LET elements == splitTomlElements(content, ",")
              trimmed == [i \in 1..Len(elements) |-> trim(elements[i])]
              kept == SelectSeq(trimmed, LAMBDA element : element # << >>)
          IN [list |-> [i \in 1..Len(kept) |-> parseTomlValueText(kept[i])]]

inlineTableFrom(pairs, result) ==
  IF pairs = << >> THEN result
  ELSE LET trimmed == trim(Head(pairs))
           eqIndex == indexOf(trimmed, "=")
           rawKey == trim(SubSeq(trimmed, 1, eqIndex))
           key == IF enclosed(rawKey, "\"", "\"") \/ enclosed(rawKey, "'", "'")
                    THEN inner(rawKey) ELSE rawKey
           valueStr == trim(SubSeq(trimmed, eqIndex + 2, Len(trimmed)))
       IN IF eqIndex <= 0 THEN inlineTableFrom(Tail(pairs), result)
          ELSE inlineTableFrom(Tail(pairs),
                               (key :> parseTomlValueText(valueStr)) @@ result)

parseTomlInlineTable(tableStr) ==
  LET content == trim(inner(tableStr))
  IN IF content = << >> THEN [map |-> << >>]
     ELSE [map |-> inlineTableFrom(splitTomlElements(content, ","), << >>)]

\* !value
falsy(value) ==
  \/ "str" \in DOMAIN value /\ value.str = << >>
  \/ "num" \in DOMAIN value /\ value.num = 0
  \/ "bool" \in DOMAIN value /\ ~value.bool

\* the walk of parseToml along the parts of a section name: the table with
\* every part of the path an object
RECURSIVE openSection(_, _)
openSection(table, parts) ==
  IF parts = << >> \/ ~isMap(table) THEN table
  ELSE LET part == Head(parts)
           found == IF part \in DOMAIN table.map /\ ~falsy(table.map[part])
                       /\ (isMap(table.map[part]) \/ isList(table.map[part]))
                      THEN table.map[part] ELSE [map |-> << >>]
       IN [map |-> (part :> openSection(found, Tail(parts))) @@ table.map]

\* currentSection[key] = value for the section at the path
RECURSIVE assignAt(_, _, _, _)
assignAt(table, parts, key, value) ==
  IF ~isMap(table) THEN table
  ELSE IF parts = << >> THEN [map |-> (key :> value) @@ table.map]
  ELSE [map |-> (Head(parts) :> assignAt(table.map[Head(parts)], Tail(parts), key, value))
                @@ table.map]

\* the loop of parseToml over the lines
RECURSIVE parseTomlFrom(_, _, _)
parseTomlFrom(lines, result, currentSection) ==
  IF lines = << >> THEN result
  ELSE LET line == trim(Head(lines))
           eqIndex == indexOf(line, "=")
       IN IF line = << >> \/ line[1] = "#"
            THEN parseTomlFrom(Tail(lines), result, currentSection)
          ELSE IF enclosed(line, "[", "]")
            THEN LET parts == split(trim(inner(line)), ".", << >>)
                 IN parseTomlFrom(Tail(lines), openSection(result, parts), parts)
          ELSE IF eqIndex > 0
            THEN parseTomlFrom(
                   Tail(lines),
                   assignAt(result, currentSection, trim(SubSeq(line, 1, eqIndex)),
                            parseTomlValueText(trim(SubSeq(line, eqIndex + 2, Len(line))))),
                   currentSection)
          ELSE parseTomlFrom(Tail(lines), result, currentSection)

\* parseToml(content) of the text of a file
parseTomlText(content) == parseTomlFrom(split(content, "\n", << >>), [map |-> << >>], << >>)

RECURSIVE toTomlValueText(_)
toTomlValueText(value) ==
  CASE "bool" \in DOMAIN value ->
         IF value.bool THEN << "t", "r", "u", "e" >> ELSE << "f", "a", "l", "s", "e" >>
    [] "num" \in DOMAIN value -> numberToString(value.num)
    [] isList(value) ->
         << "[" >>
         \o join([i \in 1..Len(value.list) |-> toTomlValueText(value.list[i])], << ",", " " >>)
         \o << "]" >>
    [] isMap(value) ->
         LET keys == keysOf(value)
         IN << "{", " " >>
            \o join([i \in 1..Len(keys) |->
                       << "\"" >> \o escapeTomlString(keys[i]) \o << "\"", " ", "=", " " >>
                       \o toTomlValueText(value.map[keys[i]])],
                    << ",", " " >>)
            \o << " ", "}" >>
    [] OTHER -> << "\"" >> \o escapeTomlString(value.str) \o << "\"" >>

\* the line `${key} = ${toTomlValue(value)}`
entryLine(key, value) == key \o << " ", "=", " " >> \o toTomlValueText(value)

\* the lines writeTomlSection pushes for a table
RECURSIVE writeTomlSectionText(_, _)
writeTomlSectionText(sectionPath, section) ==
  LET keys == keysOf(section)
      simpleEntries == SelectSeq(keys, LAMBDA k : ~isMap(section.map[k]))
      nestedEntries == SelectSeq(keys, LAMBDA k : isMap(section.map[k]))
      nested[i \in 0..Len(nestedEntries)] ==
        IF i = 0 THEN << >>
        ELSE nested[i - 1]
             \o writeTomlSectionText(sectionPath \o << "." >> \o nestedEntries[i],
                                     section.map[nestedEntries[i]])
  IN (IF simpleEntries = << >> THEN << >>
      ELSE << << "[" >> \o sectionPath \o << "]" >> >>
           \o [i \in 1..Len(simpleEntries) |->
                 entryLine(simpleEntries[i], section.map[simpleEntries[i]])])
     \o nested[Len(nestedEntries)]

\* generateToml(config): the text of the file
generateTomlText(config) ==
  LET keys == keysOf(config)
      simple == SelectSeq(keys, LAMBDA k : ~isMap(config.map[k]))
      tables == SelectSeq(keys, LAMBDA k : isMap(config.map[k]))
      sections[i \in 0..Len(tables)] ==
        IF i = 0 THEN << >>
        ELSE sections[i - 1] \o writeTomlSectionText(tables[i], config.map[tables[i]])
      lines == [i \in 1..Len(simple) |-> entryLine(simple[i], config.map[simple[i]])]
               \o sections[Len(tables)]
  IN join(lines, << "\n" >>) \o (IF lines = << >> THEN << >> ELSE << "\n" >>)

\* the strings of the configurations: empty, with a comma and a quote, with a
\* backslash, and the spellings of a number and of a boolean
Texts ==
  {<< >>, << "a", ",", "\"" >>, << "\\", "n" >>, << "1" >>, << "t", "r", "u", "e" >>}

Atoms ==
  {[str |-> text] : text \in Texts} \cup {[num |-> n] : n \in {0, -12}}
  \cup {[bool |-> b] : b \in BOOLEAN}

\* the maps with keys of KeyOrder and values of the set
MapsInto(values) ==
  UNION {[keys -> values] : keys \in SUBSET {KeyOrder[i] : i \in 1..Len(KeyOrder)}}

\* the values nested at most depth deep: strings, numbers, booleans, lists and maps
RECURSIVE Values(_)
Values(depth) ==
  IF depth = 0 THEN Atoms
  ELSE LET below == Values(depth - 1)
       IN Atoms
          \cup {[list |-> l] : l \in UNION {[1..n -> below] : n \in 0..MaxListLen}}
          \cup {[map |-> m] : m \in MapsInto(below)}

Configs == {[map |-> m] : m \in MapsInto(Values(MaxDepth))}

TomlInit ==
  /\ applied = ""
  /\ args \in Configs
  /\ returned = << >>

\* generateToml(config)
GenerateToml ==
  /\ applied = ""
  /\ applied' = "generateToml"
  /\ returned' = generateTomlText(args)
  /\ UNCHANGED args
  /\ UNCHANGED << supVars, strVars, frVars, rtVars, agVars >>

\* parseToml(content) of the text generated
ParseToml ==
  /\ applied = "generateToml"
  /\ applied' = "parseToml"
  /\ returned' = parseTomlText(returned)
  /\ UNCHANGED args
  /\ UNCHANGED << supVars, strVars, frVars, rtVars, agVars >>

TomlNext == GenerateToml \/ ParseToml

InitToml == SupInit /\ StrIdle /\ FrIdle /\ RtIdle /\ TomlInit /\ AgIdle

SpecToml == InitToml /\ [][TomlNext]_vars

\* C21: parseToml(generateToml(config)) equals config for every config built
\* only from maps, lists, strings, numbers and booleans, nested maps, empty maps
\* and empty lists included.
C21_TomlRoundTrip == applied = "parseToml" => returned = args

(***************************************************************************)
(* Usage statistics (server.js): the rollup of the sessions scanned.  A    *)
(* session is [timestamp, usage, cost]; costs are integers in units of     *)
(* 10^-8 dollars.  The weekly comparison and modelsUsed are left out.     *)
(***************************************************************************)
\* the cap of the list of sessions returned
SessionsCap == 200
\* number of sessions scanned beyond the cap
MaxOverCap == 2
\* number of sessions scanned in the small cases
MaxFew == 4
\* a timestamp counts in units of 1 / TicksPerDay of a day
TicksPerDay == 3

createUsageData ==
  [inputTokens |-> 0, outputTokens |-> 0, cacheWriteTokens |-> 0, cacheReadTokens |-> 0,
   totalTokens |-> 0]

\* the += of the five counters of a usage
addUsage(total, usage) ==
  [inputTokens |-> total.inputTokens + usage.inputTokens,
   outputTokens |-> total.outputTokens + usage.outputTokens,
   cacheWriteTokens |-> total.cacheWriteTokens + usage.cacheWriteTokens,
   cacheReadTokens |-> total.cacheReadTokens + usage.cacheReadTokens,
   totalTokens |-> total.totalTokens + usage.totalTokens]

\* sessions.sort((a, b) => b.timestamp - a.timestamp): a stable sort, the
\* sessions of one timestamp keep their order
sortNewestFirst(sessions) ==
  SortSeq(sessions, LAMBDA a, b : a.timestamp > b.timestamp)

\* the sums the loop over the sessions lo..hi adds to totalUsage and estimatedCost
RECURSIVE sumOf(_, _, _)
sumOf(sessions, lo, hi) ==
  IF lo > hi THEN [usage |-> createUsageData, cost |-> 0]
  ELSE IF lo = hi THEN [usage |-> sessions[lo].usage, cost |-> sessions[lo].cost]
  ELSE LET mid == (lo + hi) \div 2
           left == sumOf(sessions, lo, mid)
           right == sumOf(sessions, mid + 1, hi)
       IN [usage |-> addUsage(left.usage, right.usage), cost |-> left.cost + right.cost]

\* the loop of processClaudeSessions and processCodexSessions over the sessions:
\* totalUsage and estimatedCost
totalsOf(sessions, stats) ==
  LET sum == sumOf(sessions, 1, Len(sessions))
  IN [stats EXCEPT !.totalUsage = addUsage(@, sum.usage), !.estimatedCost = @ + sum.cost]

buildEmptyStats ==
  [totalSessions |-> 0, totalUsage |-> createUsageData, estimatedCost |-> 0,
   sessions |-> << >>, dailyUsage |-> << >>, byModel |-> << >>]

\* new Date(session.timestamp).toISOString().slice(0, 10): the UTC day
dateKeyOf(session) == session.timestamp \div TicksPerDay

modelOf(session) == session.model

\* the Map the loop over the sessions builds is the sequence of its values in
\* the order of insertion: one value for each key, in the order in which the
\* keys first occur among the sessions
firstsOf(sessions, keyOf(_)) ==
  SelectSeq([i \in 1..Len(sessions) |-> i],
            LAMBDA i : \A j \in 1..(i - 1) : keyOf(sessions[j]) # keyOf(sessions[i]))

\* the sessions the loop adds to the value of one key
groupOf(sessions, keyOf(_), key) == SelectSeq(sessions, LAMBDA x : keyOf(x) = key)

\* the daily entry of one day: the loop of processClaudeSessions adds the input
\* and output tokens only, the loop of processCodexSessions all five counters
dailyOf(dateKey, group, allCounters) ==
  LET sum == sumOf(group, 1, Len(group))
  IN [date |-> dateKey,
      sessions |-> Len(group),
      usage |-> IF allCounters THEN sum.usage
                ELSE [createUsageData EXCEPT !.inputTokens = sum.usage.inputTokens,
                                             !.outputTokens = sum.usage.outputTokens],
      cost |-> sum.cost]

modelStatOf(model, group) ==
  LET sum == sumOf(group, 1, Len(group))
  IN [model |-> model,
      totalCost |-> sum.cost,
      totalTokens |-> sum.usage.totalTokens,
      inputTokens |-> sum.usage.inputTokens,
      outputTokens |-> sum.usage.outputTokens,
      cacheCreationTokens |-> sum.usage.cacheWriteTokens,
      cacheReadTokens |-> sum.usage.cacheReadTokens,
      sessionCount |-> Len(group)]

\* dailyMap and modelMap after the loop over the sessions
rollupsOf(sessions, allCounters) ==
  LET days == firstsOf(sessions, dateKeyOf)
      models == firstsOf(sessions, modelOf)
  IN [dailyMap |-> [n \in 1..Len(days) |->
                      LET dateKey == dateKeyOf(sessions[days[n]])
                      IN dailyOf(dateKey, groupOf(sessions, dateKeyOf, dateKey), allCounters)],
      modelMap |-> [n \in 1..Len(models) |->
                      LET model == modelOf(sessions[models[n]])
                      IN modelStatOf(model, groupOf(sessions, modelOf, model))]]

\* dailyUsage sorted by date, byModel by totalCost with the largest first
withRollups(stats, maps) ==
  [stats EXCEPT
     !.dailyUsage = SortSeq(maps.dailyMap, LAMBDA a, b : a.date < b.date),
     !.byModel = SortSeq(maps.modelMap, LAMBDA a, b : a.totalCost > b.totalCost)]

processClaudeSessions(sessions, stats) ==
  LET sorted == sortNewestFirst(sessions)
  IN [withRollups(totalsOf(sessions, stats), rollupsOf(sessions, FALSE))
        EXCEPT
        !.sessions = IF Len(sorted) > SessionsCap THEN SubSeq(sorted, 1, SessionsCap)
                     ELSE sorted]

getClaudeProjectStatistics(scanned) ==
  processClaudeSessions(scanned, [buildEmptyStats EXCEPT !.totalSessions = Len(scanned)])

readCodexSessionSummaries(scanned) == sortNewestFirst(scanned)

processCodexSessions(sessions, stats) ==
  [withRollups(totalsOf(sessions, stats), rollupsOf(sessions, TRUE))
     EXCEPT !.sessions = sessions]

getCodexProjectStatistics(scanned) ==
  LET sessions == readCodexSessionSummaries(scanned)
  IN processCodexSessions(sessions, [buildEmptyStats EXCEPT !.totalSessions = Len(sessions)])

\* the stats handleGetUsageStatistics sends as usageStatisticsLoaded
handleGetUsageStatistics(provider, scanned) ==
  IF provider = "codex" THEN getCodexProjectStatistics(scanned)
  ELSE getClaudeProjectStatistics(scanned)

\* the sessions a scan may find: their number, and how the timestamps follow
\* each other in the order of the scan
ScanSizes ==
  0..MaxFew \cup (SessionsCap - 1)..(SessionsCap + MaxOverCap)

scannedSession(order, i, n) ==
  [timestamp |-> CASE order = "oldestFirst" -> i
                   [] order = "newestFirst" -> n + 1 - i
                   [] order = "sameTime" -> 7
                   [] OTHER -> (i * 3) % 5,
   usage |-> [inputTokens |-> i % 3, outputTokens |-> 2, cacheWriteTokens |-> i % 2,
              cacheReadTokens |-> 1, totalTokens |-> (i % 3) + 2 + (i % 2) + 1],
   cost |-> 10 * i + 1,
   model |-> IF i % 3 = 0 THEN "opus" ELSE "sonnet"]

Scans ==
  {[i \in 1..n |-> scannedSession(order, i, n)] :
     n \in ScanSizes, order \in {"oldestFirst", "newestFirst", "sameTime", "mixed"}}

StatsInit ==
  /\ applied = ""
  /\ args \in [provider : {"claude", "codex"}, scanned : Scans]
  /\ returned = << >>

GetUsageStatistics ==
  /\ applied = ""
  /\ applied' = "getUsageStatistics"
  /\ returned' = handleGetUsageStatistics(args.provider, args.scanned)
  /\ UNCHANGED args
  /\ UNCHANGED << supVars, strVars, frVars, rtVars, agVars >>

StatsNext == GetUsageStatistics

InitStats == SupInit /\ StrIdle /\ FrIdle /\ RtIdle /\ StatsInit /\ AgIdle

SpecStats == InitStats /\ [][StatsNext]_vars

\* the sessions are ordered by timestamp, the newest first
newestFirst(sessions) ==
  \A i \in 1..(Len(sessions) - 1) : sessions[i].timestamp >= sessions[i + 1].timestamp

\* C22: for either provider the sessions returned are sorted newest-first and
\* are at most 200 (each of them a scanned session), while totalSessions,
\* totalUsage and estimatedCost cover every scanned session.
C22_NewestFirstCappedTotalsOfAll ==
  applied = "getUsageStatistics" =>
    /\ newestFirst(returned.sessions)
    /\ Len(returned.sessions) <= SessionsCap
    /\ \A i \in 1..Len(returned.sessions) :
         \E j \in 1..Len(args.scanned) : returned.sessions[i] = args.scanned[j]
    /\ returned.totalSessions = Len(args.scanned)
    /\ returned.totalUsage = totalsOf(args.scanned, buildEmptyStats).totalUsage
    /\ returned.estimatedCost = totalsOf(args.scanned, buildEmptyStats).estimatedCost

(***************************************************************************)
(* parseClaudeSessionFile: the usage and the cost of one session log.  A   *)
(* line of the log is the object JSON.parse returns: [type, model, usage]  *)
(* with model << >> when message.model is absent and usage << >> when      *)
(* message.usage is absent.  Rates are in hundredths of a dollar per       *)
(* million tokens, so that a cost is an integer in units of 10^-8 dollars. *)
(***************************************************************************)
\* number of lines of a session log
MaxLines == 2
\* largest token count of a usage record
MaxTokens == 1

CLAUDE_MODEL_PRICING ==
  [opus |-> [input |-> 1500, output |-> 7500, cacheWrite |-> 1875, cacheRead |-> 150],
   sonnet |-> [input |-> 300, output |-> 1500, cacheWrite |-> 375, cacheRead |-> 30],
   haiku |-> [input |-> 80, output |-> 400, cacheWrite |-> 100, cacheRead |-> 8]]

\* lower.includes(part) for the model names of the logs
includes(lower, part) ==
  \/ lower = "claude-opus-4-1" /\ part \in {"opus-4", "claude-opus-4"}
  \/ lower = "claude-haiku-4-5" /\ part \in {"haiku-4", "claude-haiku-4"}

getClaudeModelPricing(model) ==
  IF includes(model, "opus-4") \/ includes(model, "claude-opus-4")
    THEN CLAUDE_MODEL_PRICING.opus
  ELSE IF includes(model, "haiku-4") \/ includes(model, "claude-haiku-4")
    THEN CLAUDE_MODEL_PRICING.haiku
  ELSE CLAUDE_MODEL_PRICING.sonnet

\* the cost of one usage record at the rates of a price-table entry
recordCost(u, pricing) ==
  u.input_tokens * pricing.input + u.output_tokens * pricing.output
  + u.cache_creation_input_tokens * pricing.cacheWrite
  + u.cache_read_input_tokens * pricing.cacheRead

\* the loop of parseClaudeSessionFile over the lines; st is [usage, totalCost, model]
RECURSIVE parseSessionFrom(_, _)
parseSessionFrom(lines, st) ==
  IF lines = << >> THEN st
  ELSE LET raw == Head(lines)
           u == raw.usage[1]
           counted == /\ raw.type = "assistant"
                      /\ raw.usage # << >>
                      /\ u.input_tokens + u.output_tokens + u.cache_creation_input_tokens
                           + u.cache_read_input_tokens # 0
           named == IF st.model = "unknown" /\ raw.model # << >> THEN raw.model[1]
                    ELSE st.model
       IN parseSessionFrom(
            Tail(lines),
            IF counted
              THEN [usage |-> [st.usage EXCEPT
                                 !.inputTokens = @ + u.input_tokens,
                                 !.outputTokens = @ + u.output_tokens,
                                 !.cacheWriteTokens = @ + u.cache_creation_input_tokens,
                                 !.cacheReadTokens = @ + u.cache_read_input_tokens],
                    totalCost |-> st.totalCost + recordCost(u, getClaudeModelPricing(named)),
                    model |-> named]
              ELSE st)

\* parseClaudeSessionFile: << >> for null, else << session >>
parseClaudeSessionFile(lines) ==
  LET st == parseSessionFrom(lines, [usage |-> createUsageData, totalCost |-> 0,
                                     model |-> "unknown"])
      total == st.usage.inputTokens + st.usage.outputTokens + st.usage.cacheWriteTokens
               + st.usage.cacheReadTokens
  IN IF total = 0 THEN << >>
     ELSE << [model |-> st.model, usage |-> [st.usage EXCEPT !.totalTokens = total],
              cost |-> st.totalCost] >>

LogLines ==
  [type : {"assistant"},
   model : {<< >>, << "claude-opus-4-1" >>, << "claude-haiku-4-5" >>},
   usage : {<< >>} \cup
           {<< u >> : u \in [input_tokens : 0..MaxTokens, output_tokens : 0..MaxTokens,
                             cache_creation_input_tokens : 0..MaxTokens,
                             cache_read_input_tokens : 0..MaxTokens]}]
  \cup {[type |-> "user", model |-> << >>, usage |-> << >>]}

CostInit ==
  /\ applied = ""
  /\ args \in UNION {[1..n -> LogLines] : n \in 0..MaxLines}
  /\ returned = << >>

ParseClaudeSessionFile ==
  /\ applied = ""
  /\ applied' = "parseClaudeSessionFile"
  /\ returned' = parseClaudeSessionFile(args)
  /\ UNCHANGED args
  /\ UNCHANGED << supVars, strVars, frVars, rtVars, agVars >>

CostNext == ParseClaudeSessionFile

InitCost == SupInit /\ StrIdle /\ FrIdle /\ RtIdle /\ CostInit /\ AgIdle

SpecCost == InitCost /\ [][CostNext]_vars

\* the sum, over the usage records of the log, of the cost at the rates given
RECURSIVE costAtRates(_, _)
costAtRates(lines, pricing) ==
  IF lines = << >> THEN 0
  ELSE (IF Head(lines).type = "assistant" /\ Head(lines).usage # << >>
          THEN recordCost(Head(lines).usage[1], pricing) ELSE 0)
       + costAtRates(Tail(lines), pricing)

\* C23: for a session log whose model is known, the session cost is the sum
\* over all its usage records of input x input rate + output x output rate +
\* cache-write x cache-write rate + cache-read x cache-read rate, at the rates
\* of the session's model for every record.
C23_CostAtRatesOfSessionModel ==
  (applied = "parseClaudeSessionFile" /\ returned # << >> /\ returned[1].model # "unknown")
    => returned[1].cost = costAtRates(args, getClaudeModelPricing(returned[1].model))

(***************************************************************************)
(* handleInstallDependency: the package-manager subprocess of a request    *)
(* and the listeners on it.  pc is "installing" while the subprocess       *)
(* object has raised neither 'error' nor 'close', "errored" after 'error'. *)
(* When the command cannot be spawned the subprocess object raises 'error' *)
(* and then 'close' with the negative error number as code.                *)
(***************************************************************************)
\* handleInstallDependency(content, requestId): the early returns for an unknown
\* sdk id and for a missing node environment, else spawn and the listeners
InstallDependency ==
  \E r \in Reqs, starts \in BOOLEAN :
    /\ pc[r] = "new"
    /\ \A q \in Reqs : q < r => pc[q] # "new"
    /\ IF starts
         THEN /\ kind' = [kind EXCEPT ![r] = "install"]
              /\ pc' = [pc EXCEPT ![r] = "installing"]
              /\ UNCHANGED << stdout, bufferedContent, capturedStructuredError,
                              structuredErrorEmitted >>
         ELSE /\ kind' = [kind EXCEPT ![r] = "rejected"]
              /\ pc' = [pc EXCEPT ![r] = "done"]
              /\ setLogState(sendToHost(consoleLog, "dependencyInstallResult", << >>, r,
                                        LogState))
    /\ UNCHANGED << consoleLog, saved, produced, streamingEnabled, thinkingEnabled >>
    /\ UNCHANGED strOthers

\* onChunk: a 'data' event of the subprocess's stdout or stderr with one line
InstallChunk ==
  \E r \in Reqs :
    /\ pc[r] = "installing"
    /\ totalOutputs < MaxOutputs
    /\ produced' = [produced EXCEPT ![r] = Append(@, "PROGRESS")]
    /\ setLogState(sendToHost(consoleLog, "dependencyInstallProgress",
                              << << r, Len(produced[r]) + 1 >> >>, r, LogState))
    /\ UNCHANGED << consoleLog, pc, kind, saved, streamingEnabled, thinkingEnabled >>
    /\ UNCHANGED strOthers

\* child.on('error'): the command could not be spawned
InstallError ==
  \E r \in Reqs :
    /\ pc[r] = "installing"
    /\ produced[r] = << >>
    /\ pc' = [pc EXCEPT ![r] = "errored"]
    /\ setLogState(sendToHost(consoleLog, "dependencyInstallResult", << >>, r, LogState))
    /\ UNCHANGED << consoleLog, kind, saved, produced, streamingEnabled, thinkingEnabled >>
    /\ UNCHANGED strOthers

\* child.on('close'): code 0 sends the result and then handleGetDependencies,
\* any other code sends the failure
InstallClose ==
  \E r \in Reqs, succeeded \in BOOLEAN :
    /\ pc[r] \in {"installing", "errored"}
    /\ pc[r] = "errored" => ~succeeded
    /\ pc' = [pc EXCEPT ![r] = "done"]
    /\ LET result == sendToHost(consoleLog, "dependencyInstallResult", << >>, r, LogState)
       IN setLogState(IF succeeded
                        THEN sendToHost(consoleLog, "dependenciesLoaded", << >>, r, result)
                        ELSE result)
    /\ UNCHANGED << consoleLog, kind, saved, produced, streamingEnabled, thinkingEnabled >>
    /\ UNCHANGED strOthers

InstallNext == InstallDependency \/ InstallChunk \/ InstallError \/ InstallClose

InitInstall == SupInit /\ StrInit /\ FrIdle /\ RtIdle /\ FnIdle /\ AgIdle

SpecInstall == InitInstall /\ [][InstallNext]_vars

\* C24: for every installDependency request that started the subprocess there
\* is at most one dependencyInstallResult envelope of its requestId, exactly one
\* once the subprocess has closed, and no dependencyInstallProgress envelope of
\* the request follows it.
C24_OneInstallResult ==
  \A r \in Reqs :
    kind[r] = "install" =>
      LET ts == typesOf(r)
      IN /\ countOf(ts, "dependencyInstallResult") <= 1
         /\ pc[r] = "done" => countOf(ts, "dependencyInstallResult") = 1
         /\ \A i, j \in 1..Len(ts) :
              (ts[i] = "dependencyInstallResult" /\ ts[j] = "dependencyInstallProgress")
                => j < i

(***************************************************************************)
(* Agents: agent.json holds the agents by id and selectedAgentId.  An id   *)
(* of a message is a JSON value: its type and the property key it names.   *)
(***************************************************************************)
StrId(v) == [t |-> "string", v |-> v]

\* a JSON number: as a property key it reads as its decimal text
NumId(v) == [t |-> "number", v |-> v]

NullId == [t |-> "null", v |-> ""]

\* `agent_${Date.now()}`
GeneratedId == "agent_now"

\* Object.keys order: integer-like keys first, then the others as inserted
AgentKeyOrder == << "1", "a1", GeneratedId >>

\* !!id
truthy(id) == id.t \in {"string", "number"} /\ id.v # ""

\* typeof id === 'string' && id
isNonEmptyString(id) == id.t = "string" /\ id.v # ""

\* the property key existing[id] reads
toPropertyKey(id) == id.v

RECURSIVE agentMapOf(_, _)
agentMapOf(agents, agentMap) ==
  IF agents = << >> THEN agentMap
  ELSE LET agent == Head(agents)
           id == IF isNonEmptyString(agent.id) THEN agent.id.v ELSE GeneratedId
           entry == [agent EXCEPT !.id = StrId(id)]
       IN agentMapOf(Tail(agents),
                     [k \in DOMAIN agentMap \cup {id} |->
                        IF k = id THEN entry ELSE agentMap[k]])

normalizeAgentsConfig(raw) ==
  IF isMap(raw.agents) THEN raw
  ELSE [raw EXCEPT !.agents = [map |-> agentMapOf(raw.agents.list, << >>)]]

\* saveJsonFile(AGENT_FILE, normalizeAgentsConfig(config))
writeAgentConfig(store, config) ==
  [store EXCEPT !.agent = << normalizeAgentsConfig(config) >>]

\* the configuration read and the files after the read: a configuration found
\* only in the older file is saved to agent.json
readAgentConfig(store) ==
  IF store.agent # << >>
    THEN [config |-> normalizeAgentsConfig(store.agent[1]), store |-> store]
    ELSE IF store.legacy # << >>
      THEN LET legacy == normalizeAgentsConfig(store.legacy[1])
           IN [config |-> legacy, store |-> [store EXCEPT !.agent = << legacy >>]]
      ELSE [config |-> [selectedAgentId |-> NoId, agents |-> [map |-> << >>]],
            store |-> store]

\* the ids of the agents listed (the order by createdAt is left out: every
\* agent of the model has the same creation time)
getAgentsList(store) ==
  SelectSeq(AgentKeyOrder, LAMBDA k : k \in DOMAIN readAgentConfig(store).config.agents.map)

handleGetSelectedAgent(store, requestId) ==
  LET read == readAgentConfig(store)
      selectedId == IF read.config.selectedAgentId.t = "string"
                      THEN read.config.selectedAgentId ELSE NullId
      agent == IF selectedId.v # "" /\ selectedId.v \in DOMAIN read.config.agents.map
                 THEN selectedId ELSE NullId
  IN [store |-> read.store,
      out |-> << Envelope("selectedAgentLoaded",
                          << [selectedAgentId |-> selectedId, agent |-> agent] >>,
                          requestId) >>]

handleSetSelectedAgent(store, content, requestId) ==
  LET read == readAgentConfig(store)
      agent == content
  IN IF isNonEmptyString(agent.id)
       THEN LET config == [read.config EXCEPT
                             !.selectedAgentId = agent.id,
                             !.agents.map = [k \in DOMAIN @ |->
                                               IF k = agent.id.v
                                                 THEN [@[k] EXCEPT !.id = agent.id]
                                                 ELSE @[k]]]
            IN [store |-> writeAgentConfig(read.store, config),
                out |-> << Envelope("selectedAgentChanged", << [agent |-> agent.id] >>,
                                    requestId) >>]
       ELSE [store |-> writeAgentConfig(read.store,
                                        [read.config EXCEPT !.selectedAgentId = NullId]),
             out |-> << Envelope("selectedAgentChanged", << [agent |-> NullId] >>,
                                 requestId) >>]

agentOperationResult(success, operation, requestId) ==
  Envelope("agentOperationResult", << [success |-> success, operation |-> operation] >>,
           requestId)

handleAddAgent(store, content, requestId) ==
  LET read == readAgentConfig(store)
      agent == content
      id == IF isNonEmptyString(agent.id) THEN agent.id.v ELSE GeneratedId
      existing == read.config.agents.map
  IN IF id \in DOMAIN existing
       THEN [store |-> read.store,
             out |-> << agentOperationResult(FALSE, "add", requestId) >>]
       ELSE LET config == [read.config EXCEPT
                             !.agents.map = [k \in DOMAIN existing \cup {id} |->
                                               IF k = id THEN [id |-> StrId(id)]
                                               ELSE existing[k]]]
                written == writeAgentConfig(read.store, config)
            IN [store |-> written,
                out |-> << Envelope("agentsLoaded", getAgentsList(written), requestId),
                           agentOperationResult(TRUE, "add", requestId) >>]

\* existing[id] and delete existing[id] read id as a property key;
\* config.selectedAgentId === id compares type and value
handleDeleteAgent(store, content, requestId) ==
  LET read == readAgentConfig(store)
      id == content.id
      existing == read.config.agents.map
  IN IF ~truthy(id) \/ toPropertyKey(id) \notin DOMAIN existing
       THEN [store |-> read.store,
             out |-> << agentOperationResult(FALSE, "delete", requestId) >>]
       ELSE LET deleted == [read.config EXCEPT
                              !.agents.map = [k \in DOMAIN existing \ {toPropertyKey(id)}
                                                |-> existing[k]]]
                selected == read.config.selectedAgentId = id
                config == IF selected THEN [deleted EXCEPT !.selectedAgentId = NullId]
                          ELSE deleted
                written == writeAgentConfig(read.store, config)
            IN [store |-> written,
                out |-> (IF selected
                           THEN << Envelope("selectedAgentChanged", << [agent |-> NullId] >>,
                                            requestId) >>
                           ELSE << >>)
                        \o << Envelope("agentsLoaded", getAgentsList(written), requestId),
                              agentOperationResult(TRUE, "delete", requestId) >>]

\* !id || !updates || typeof updates !== 'object' throws; existing[id] reads id
\* as a property key, and the entry written back carries the id as it was sent
handleUpdateAgent(store, content, requestId) ==
  LET id == content.id
      read == readAgentConfig(store)
      existing == read.config.agents.map
  IN IF ~truthy(id) \/ ~content.updates
       THEN [store |-> store,
             out |-> << agentOperationResult(FALSE, "update", requestId) >>]
     ELSE IF toPropertyKey(id) \notin DOMAIN existing
       THEN [store |-> read.store,
             out |-> << agentOperationResult(FALSE, "update", requestId) >>]
     ELSE LET config == [read.config EXCEPT
                           !.agents.map[toPropertyKey(id)] = [@ EXCEPT !.id = id]]
              written == writeAgentConfig(read.store, config)
          IN [store |-> written,
              out |-> << Envelope("agentsLoaded", getAgentsList(written), requestId),
                         agentOperationResult(TRUE, "update", requestId) >>]

\* the two agent files as one value
AgentStore == [agent |-> agentFile, legacy |-> legacyAgentsFile]

\* the state after the handler of an agent message returned result
agentHandled(type, content, requestId, result) ==
  /\ agentFile' = result.store.agent
  /\ legacyAgentsFile' = result.store.legacy
  /\ agentReq' = [type |-> type, id |-> content.id, requestId |-> requestId]
  /\ agentOut' = result.out
  /\ UNCHANGED << supVars, strVars, frVars, rtVars, fnVars >>

\* the ids a client sends: strings, the number 1, and none
AgentIds == {StrId("a1"), StrId("1"), NumId("1"), NoId}

\* agents.json as an older version left it: a list of agents
LegacyConfigs ==
  {[selectedAgentId |-> sel, agents |-> [list |-> list]] :
     sel \in {NoId, StrId("a1")},
     list \in {<< >>, << [id |-> StrId("a1")] >>, << [id |-> StrId("a1")], [id |-> NoId] >>}}

AgentsInit ==
  /\ agentFile = << >>
  /\ legacyAgentsFile \in {<< >>} \cup {<< c >> : c \in LegacyConfigs}
  /\ agentReq = [type |-> "", id |-> NoId, requestId |-> 0]
  /\ agentOut = << >>

GetSelectedAgent ==
  \E requestId \in Rids :
    agentHandled("getSelectedAgent", [id |-> NoId], requestId,
                 handleGetSelectedAgent(AgentStore, requestId))

SetSelectedAgent ==
  \E id \in AgentIds, requestId \in Rids :
    agentHandled("setSelectedAgent", [id |-> id], requestId,
                 handleSetSelectedAgent(AgentStore, [id |-> id], requestId))

AddAgent ==
  \E id \in AgentIds, requestId \in Rids :
    agentHandled("addAgent", [id |-> id], requestId,
                 handleAddAgent(AgentStore, [id |-> id], requestId))

DeleteAgent ==
  \E id \in AgentIds, requestId \in Rids :
    agentHandled("deleteAgent", [id |-> id], requestId,
                 handleDeleteAgent(AgentStore, [id |-> id], requestId))

\* updates is an object or is missing
UpdateAgent ==
  \E id \in AgentIds, updates \in BOOLEAN, requestId \in Rids :
    agentHandled("updateAgent", [id |-> id], requestId,
                 handleUpdateAgent(AgentStore, [id |-> id, updates |-> updates], requestId))

AgentsNext ==
  GetSelectedAgent \/ SetSelectedAgent \/ AddAgent \/ UpdateAgent \/ DeleteAgent

InitAgents == SupInit /\ StrIdle /\ FrIdle /\ RtIdle /\ FnIdle /\ AgentsInit

SpecAgents == InitAgents /\ [][AgentsNext]_vars

\* the last handler reported the deletion as done
deleteSucceeded(req, out) ==
  /\ req.type = "deleteAgent"
  /\ \E i \in 1..Len(out) :
       out[i].type = "agentOperationResult" /\ out[i].frags[1].success

\* selectedAgentId names the agent stored under the key the id reads as
references(selectedAgentId, id) ==
  selectedAgentId.t = "string" /\ selectedAgentId.v = toPropertyKey(id)

\* C25: after a deleteAgent that succeeds for the agent selectedAgentId
\* references, the stored selectedAgentId is null and a selectedAgentChanged
\* envelope with a null agent was sent; a deleteAgent of any other agent leaves
\* selectedAgentId as it was.
C25_DeleteClearsSelection ==
  [][deleteSucceeded(agentReq', agentOut') =>
       LET before == readAgentConfig(AgentStore).config.selectedAgentId
           after == agentFile'[1].selectedAgentId
       IN IF references(before, agentReq'.id)
            THEN /\ after = NullId
                 /\ \E i \in 1..Len(agentOut') :
                      /\ agentOut'[i].type = "selectedAgentChanged"
                      /\ agentOut'[i].frags[1].agent = NullId
            ELSE after = before]_vars

(***************************************************************************)
(* normalizeMessageType: the table of legacy spellings, read with          *)
(* typeMap[type] || type.  typeMap is an object literal, so a name it does *)
(* not hold itself is looked up in Object.prototype.  A value is a string  *)
(* [str |-> s] or a built-in of Object.prototype [builtin |-> name].       *)
(***************************************************************************)
typeMap ==
     ("send_message" :> "sendMessage")
  @@ ("send_message_with_attachments" :> "sendMessageWithAttachments")
  @@ ("get_history" :> "getHistory")
  @@ ("load_history_data" :> "getHistory")
  @@ ("load_session" :> "loadSession")
  @@ ("delete_session" :> "deleteSession")
  @@ ("create_new_session" :> "createNewSession")
  @@ ("interrupt_session" :> "interruptSession")
  @@ ("export_session" :> "exportSession")
  @@ ("toggle_favorite" :> "toggleFavorite")
  @@ ("update_title" :> "updateTitle")
  @@ ("create_new_tab" :> "createNewTab")
  @@ ("get_settings" :> "getSettings")
  @@ ("update_settings" :> "updateSettings")
  @@ ("get_streaming_enabled" :> "getStreamingEnabled")
  @@ ("set_streaming_enabled" :> "setStreamingEnabled")
  @@ ("get_send_shortcut" :> "getSendShortcut")
  @@ ("set_send_shortcut" :> "setSendShortcut")
  @@ ("get_thinking_enabled" :> "getThinkingEnabled")
  @@ ("set_thinking_enabled" :> "setThinkingEnabled")
  @@ ("get_provider_config" :> "getProviderConfig")
  @@ ("update_provider_config" :> "updateProviderConfig")
  @@ ("get_current_claude_config" :> "getCurrentClaudeConfig")
  @@ ("update_current_claude_config" :> "updateCurrentClaudeConfig")
  @@ ("get_active_provider" :> "getActiveProvider")
  @@ ("set_active_provider" :> "setActiveProvider")
  @@ ("set_provider" :> "setProvider")
  @@ ("get_providers" :> "getProviders")
  @@ ("add_provider" :> "addProvider")
  @@ ("update_provider" :> "updateProvider")
  @@ ("switch_provider" :> "switchProvider")
  @@ ("delete_provider" :> "deleteProvider")
  @@ ("get_codex_providers" :> "getCodexProviders")
  @@ ("add_codex_provider" :> "addCodexProvider")
  @@ ("update_codex_provider" :> "updateCodexProvider")
  @@ ("switch_codex_provider" :> "switchCodexProvider")
  @@ ("delete_codex_provider" :> "deleteCodexProvider")
  @@ ("set_model" :> "setModel")
  @@ ("set_mode" :> "setMode")
  @@ ("set_reasoning_effort" :> "setReasoningEffort")
  @@ ("permission_response" :> "permissionResponse")
  @@ ("permission_decision" :> "permissionDecision")
  @@ ("ask_user_question_response" :> "askUserQuestionResponse")
  @@ ("plan_approval_response" :> "planApprovalResponse")
  @@ ("get_mcp_servers" :> "getMcpServers")
  @@ ("add_mcp_server" :> "addMcpServer")
  @@ ("update_mcp_server" :> "updateMcpServer")
  @@ ("delete_mcp_server" :> "deleteMcpServer")
  @@ ("toggle_mcp_server" :> "toggleMcpServer")
  @@ ("get_mcp_server_status" :> "getMcpServerStatus")
  @@ ("get_codex_mcp_servers" :> "getCodexMcpServers")
  @@ ("add_codex_mcp_server" :> "addCodexMcpServer")
  @@ ("update_codex_mcp_server" :> "updateCodexMcpServer")
  @@ ("delete_codex_mcp_server" :> "deleteCodexMcpServer")
  @@ ("toggle_codex_mcp_server" :> "toggleCodexMcpServer")
  @@ ("get_global_mcp_servers" :> "getMcpServers")
  @@ ("add_global_mcp_server" :> "addMcpServer")
  @@ ("update_global_mcp_server" :> "updateMcpServer")
  @@ ("delete_global_mcp_server" :> "deleteMcpServer")
  @@ ("toggle_global_mcp_server" :> "toggleMcpServer")
  @@ ("get_skills" :> "getSkills")
  @@ ("get_all_skills" :> "getSkills")
  @@ ("import_skill" :> "importSkill")
  @@ ("open_skill" :> "openSkill")
  @@ ("delete_skill" :> "deleteSkill")
  @@ ("toggle_skill" :> "toggleSkill")
  @@ ("get_agents" :> "getAgents")
  @@ ("get_selected_agent" :> "getSelectedAgent")
  @@ ("set_selected_agent" :> "setSelectedAgent")
  @@ ("add_agent" :> "addAgent")
  @@ ("update_agent" :> "updateAgent")
  @@ ("delete_agent" :> "deleteAgent")
  @@ ("get_dependencies" :> "getDependencies")
  @@ ("get_dependency_status" :> "getDependencies")
  @@ ("get_sdk_status" :> "getSdkStatus")
  @@ ("install_dependency" :> "installDependency")
  @@ ("uninstall_dependency" :> "uninstallDependency")
  @@ ("check_node_environment" :> "checkNodeEnvironment")
  @@ ("get_usage_statistics" :> "getUsageStatistics")
  @@ ("open_file" :> "openFile")
  @@ ("open_browser" :> "openBrowser")
  @@ ("refresh_file" :> "refreshFile")
  @@ ("show_diff" :> "showDiff")
  @@ ("show_multi_edit_diff" :> "showMultiEditDiff")
  @@ ("rewind_files" :> "rewindFiles")
  @@ ("list_files" :> "listFiles")
  @@ ("save_json" :> "saveJson")
  @@ ("frontend_ready" :> "frontendReady")
  @@ ("refresh_slash_commands" :> "refreshSlashCommands")
  @@ ("get_node_path" :> "getNodePath")
  @@ ("set_node_path" :> "setNodePath")
  @@ ("get_working_directory" :> "getWorkingDirectory")
  @@ ("set_working_directory" :> "setWorkingDirectory")
  @@ ("get_editor_font_config" :> "getEditorFontConfig")
  @@ ("open_file_chooser_for_cc_switch" :> "openFileChooserForCcSwitch")
  @@ ("save_imported_providers" :> "saveImportedProviders")
  @@ ("preview_cc_switch_import" :> "previewCcSwitchImport")

\* the properties every object literal inherits
ObjectPrototype == {"constructor", "toString", "valueOf", "hasOwnProperty", "__proto__"}

\* the property name a value is read as: String(value)
propertyNameOf(value) ==
  IF DOMAIN value = {"str"} THEN value.str
  ELSE IF value.builtin = "__proto__" THEN "[object Object]"
  ELSE IF value.builtin = "constructor" THEN "function Object() { [native code] }"
  ELSE "function " \o value.builtin \o "() { [native code] }"

\* typeMap[type]: << >> for undefined
lookup(type) ==
  LET name == propertyNameOf(type)
  IN IF name \in DOMAIN typeMap THEN << [str |-> typeMap[name]] >>
     ELSE IF name \in ObjectPrototype THEN << [builtin |-> name] >>
     ELSE << >>

\* typeMap[type] || type: every value the table or the prototype holds is truthy
normalizeMessageType(type) ==
  IF lookup(type) # << >> THEN lookup(type)[1] ELSE type

\* the canonical names of the table
CanonicalNames == {typeMap[k] : k \in DOMAIN typeMap}

\* the message types tried: every legacy spelling, every canonical name, names
\* the bridge does not know, and names of Object.prototype
MessageTypes ==
  {[str |-> s] : s \in DOMAIN typeMap \cup CanonicalNames
                       \cup {"", "frobnicate", "send-message", "SEND_MESSAGE"}
                       \cup ObjectPrototype}

NormalizeInit ==
  /\ applied = ""
  /\ args \in MessageTypes
  /\ returned = << >>

\* normalizeMessageType(type)
NormalizeMessageType ==
  /\ applied = ""
  /\ applied' = "normalizeMessageType"
  /\ returned' = << normalizeMessageType(args) >>
  /\ UNCHANGED args
  /\ UNCHANGED << supVars, strVars, frVars, rtVars, agVars >>

\* normalizeMessageType applied to what the first call returned
NormalizeAgain ==
  /\ applied = "normalizeMessageType"
  /\ Len(returned) = 1
  /\ returned' = Append(returned, normalizeMessageType(returned[1]))
  /\ UNCHANGED << applied, args >>
  /\ UNCHANGED << supVars, strVars, frVars, rtVars, agVars >>

NormalizeNext == NormalizeMessageType \/ NormalizeAgain

InitNormalize == SupInit /\ StrIdle /\ FrIdle /\ RtIdle /\ AgIdle /\ NormalizeInit

SpecNormalize == InitNormalize /\ [][NormalizeNext]_vars

\* C26: normalizeMessageType returns the canonical name for every legacy
\* spelling of the table and the input itself for every other string, and a
\* second application returns what the first returned.
C26_NormalizeMapsTableOnly ==
  applied = "normalizeMessageType" =>
    /\ args.str \in DOMAIN typeMap => returned[1] = [str |-> typeMap[args.str]]
    /\ args.str \notin DOMAIN typeMap => returned[1] = args
    /\ Len(returned) = 2 => returned[2] = returned[1]

(***************************************************************************)
(* The supervisor when a child cannot be spawned: spawn() returns a handle *)
(* and start() completes; the handle then raises 'error' and no 'exit'     *)
(***************************************************************************)
\* the 'error' listener of child p: it logs, clears _isRunning and, for ENOENT,
\* shows the message about the missing Node.js runtime; it schedules nothing
errorHandler(p) ==
  /\ procState' = [procState EXCEPT ![p] = "dead"]
  /\ _isRunning' = FALSE
  /\ UNCHANGED << _process, _restartCount, spawnCount, timers, errorShown >>

\* the spawn of child p failed: its 'error' event is delivered
ChildError ==
  \E p \in Procs :
    /\ procState[p] = "alive"
    /\ errorHandler(p)
    /\ lastAct' = "error"
    /\ UNCHANGED << suppressed, spawnsAtStop, crashes, crashDelays >>
    /\ UNCHANGED supOthers

SpawnErrorNext == SupNext \/ ChildError

InitSpawnError == SupInit /\ StrIdle /\ FrIdle /\ RtIdle /\ FnIdle /\ AgIdle

SpecSpawnError == InitSpawnError /\ [][SpawnErrorNext]_vars

\* C27: a spawn error delivered while _restartCount is below _maxRestarts
\* schedules a restart whose delay is the one a non-zero exit would get: the
\* delay unit times the retry count after the increment.
C27_SpawnErrorSchedulesRestart ==
  [][(lastAct' = "error" /\ _restartCount < _maxRestarts) =>
       /\ _restartCount' = _restartCount + 1
       /\ timers' = Append(timers, restartDelay(_restartCount + 1))]_vars

(***************************************************************************)
(* BridgeManager.send in every state of the supervisor.  args is the       *)
(* history of the calls, stdin keeps every write (no child reads here).    *)
(***************************************************************************)
\* the messages sent: a plain text, a text with a newline and a backslash, and
\* a message JSON.stringify cannot serialize
SentContents ==
  {[text |-> << "a" >>, serializable |-> TRUE],
   [text |-> << "a", "\n", "\\" >>, serializable |-> TRUE],
   [text |-> << "a" >>, serializable |-> FALSE]}

\* whether a child is running: a handle whose process is alive
childRunning == \E p \in Procs : procState[p] = "alive"

\* the host calls send(message)
Send ==
  \E content \in SentContents :
    /\ Len(args) < MaxMsgs
    /\ LET message == [type |-> "getSettings", content |-> [text |-> content.text],
                       requestId |-> Len(args) + 1]
           call == send(message, content.serializable)
       IN /\ stdin' = call.stdin
          /\ args' = Append(args, [message |-> message, result |-> call.result,
                                   threw |-> call.threw, running |-> childRunning,
                                   proc |-> _process])
          /\ returned' = << call.result >>
    /\ applied' = "send"
    /\ UNCHANGED << fileVars, lastOut, lastReq, lastThrew, crashed, merged, _webview,
                    routed, replied >>
    /\ UNCHANGED << supVars, strVars, frVars, agVars >>

SendNext == SupNext \/ ChildError \/ Send

InitSend == SupInit /\ StrIdle /\ FrIdle /\ RtIdle /\ AgIdle /\ FnIdle

SpecSend == InitSend /\ [][SendNext]_vars

\* C28: no call of send throws, in any state of the supervisor, and a call
\* made while no child is running returns false and writes nothing.
C28_SendWithoutChildReturnsFalse ==
  [][Len(args') > Len(args) =>
       LET call == args'[Len(args')]
       IN /\ ~call.threw
          /\ ~childRunning => (~call.result /\ stdin' = stdin)]_vars

\* a call of send was made while no child was running, and returned false
C28_Witness ==
  \E i \in 1..Len(args) : ~args[i].running /\ ~args[i].result /\ stdin = << >>

\* the text is one line: its last fragment is the newline, none before it is
isOneLine(data) ==
  /\ data # << >>
  /\ data[Len(data)] = "\n"
  /\ \A j \in 1..(Len(data) - 1) : data[j] # "\n"

\* JSON.parse of the string between the quotes of a line
RECURSIVE unescapeJson(_)
unescapeJson(text) ==
  IF text = << >> THEN << >>
  ELSE IF Head(text) = "\\" /\ Len(text) > 1
    THEN << IF text[2] = "n" THEN "\n" ELSE text[2] >> \o unescapeJson(SubSeq(text, 3, Len(text)))
    ELSE << Head(text) >> \o unescapeJson(Tail(text))

\* what the child parses from a line: type, text and requestId
parseLine(data) ==
  [type |-> data[2], text |-> unescapeJson(SubSeq(data, 4, Len(data) - 4)),
   requestId |-> data[Len(data) - 2]]

\* the calls of send that returned true, in call order
succeeded == SelectSeq(args, LAMBDA call : call.result)

\* C29: the writes to the children's stdin are, in call order, one per call of
\* send that returned true; each is one newline-terminated line, and the line
\* holds the whole envelope of its call and nothing else.
C29_OneWholeLinePerSend ==
  applied \in {"", "send"} =>
    /\ Len(stdin) = Len(succeeded)
    /\ \A i \in 1..Len(stdin) :
         /\ stdin[i].proc = succeeded[i].proc
         /\ isOneLine(stdin[i].data)
         /\ parseLine(stdin[i].data)
              = [type |-> succeeded[i].message.type,
                 text |-> succeeded[i].message.content.text,
                 requestId |-> ToString(succeeded[i].message.requestId)]

\* two calls returned true for the same child, the first with a text that holds
\* a newline: the child's input is the two lines in call order
C29_Witness ==
  /\ Len(stdin) = 2
  /\ stdin[1].proc = stdin[2].proc
  /\ "\n" \in {stdin[1].message.content.text[j] :
                 j \in 1..Len(stdin[1].message.content.text)}
  /\ stdin[1].message.requestId < stdin[2].message.requestId

(***************************************************************************)
(* sendMessage while the SDK of the provider is missing                    *)
(***************************************************************************)
\* the envelopes the host received with requestId r, in order
envelopesOf(out, r) == SelectSeq(SelectSeq(out, LAMBDA l : l.k = "env"), LAMBDA l : l.rid = r)

\* streamStart, the chunk with the instructions, streamEnd
missingSdkStream(r) ==
  << Envelope("streamStart", << >>, r), RemediationChunk(r), Envelope("streamEnd", << >>, r) >>

\* C30: a sendMessage request handled while the SDK of its provider is missing
\* gives the host, under its requestId, one streamStart, one streamChunk with
\* the remediation text and one streamEnd, in this order, and nothing else,
\* then or later.
C30_MissingSdkStream ==
  /\ [][\A r \in Reqs :
          (pc[r] = "new" /\ pc'[r] = "done" /\ kind'[r] = "send")
            => envelopesOf(stdout', r) = missingSdkStream(r)]_vars
  /\ [](\A r \in Reqs :
          (\E i \in 1..Len(stdout) : stdout[i] = RemediationChunk(r))
            => envelopesOf(stdout, r) = missingSdkStream(r))

\* a request got the remediation stream while the interceptor of an earlier
\* Claude request was installed
C30_Witness ==
  \E r, q \in Reqs :
    /\ q < r
    /\ pc[q] = "claude"
    /\ consoleLog = q
    /\ envelopesOf(stdout, r) = missingSdkStream(r)

(***************************************************************************)
(* The MCP servers of both services in one run                             *)
(***************************************************************************)
\* CLAUDE_JSON_FILE missing, with two servers, and with a server that both
\* disabled lists name
FewClaudeJsonDocs ==
  {<< >>,
   << [mcpServers |-> << ("s1" :> "stdio") @@ ("s2" :> "null") >>,
       disabledMcpServers |-> << >>, projects |-> << >>] >>,
   << [mcpServers |-> << "s1" :> "stdio" >>,
       disabledMcpServers |-> << << "s1" >> >>,
       projects |-> << WorkspaceRoot :> << << "s1" >> >> >>] >>}

McpServicesInit ==
  /\ NoProviders
  /\ SkillsIdle
  /\ claudeJson \in FewClaudeJsonDocs
  /\ configMcpServers \in
       {<< >>, << << [id |-> "s1", server |-> "stdio", enabled |-> FALSE] >> >>}
  /\ legacyMcpServers \in {<< >>, << [id |-> "s2", server |-> "stdio", enabled |-> TRUE] >>}
  /\ codexConfigToml \in TomlFiles
  /\ claudeSettingsFile = << >>
  /\ PlumbingInit
  /\ Started

\* one MCP message for either service arrives on the bridge's stdin; the
\* requestIds count the messages
McpServiceLine ==
  \E message \in McpMessages \cup CodexMcpMessages, writable \in BOOLEAN :
    /\ lastReq.requestId < MaxMsgs
    /\ message.type \notin McpWritingTypes => writable
    /\ onLine([message EXCEPT !.requestId = lastReq.requestId + 1], writable, NoFault)
    /\ UNCHANGED << _webview, stdin, routed, replied >>
    /\ UNCHANGED rtOthers

McpServicesNext == McpServiceLine

InitMcpServices == SupInit /\ StrIdle /\ FrIdle /\ McpServicesInit /\ FnIdle /\ AgIdle

SpecMcpServices == InitMcpServices /\ [][McpServicesNext]_vars

\* C31: a toggle of an id the service's read did not list is answered with one
\* error envelope carrying the requestId of the request, and no configuration
\* file is written.
C31_ToggleOfAbsentIdWritesNothing ==
  [][(lastReq'.type \in ToggleTypes /\ lastReq'.wasEnabled = "none") =>
       /\ lastOut' = << Envelope("error", << >>, lastReq'.requestId) >>
       /\ UNCHANGED << codemossConfig, codexConfig, codemossSettings, providersFile,
                       codexProvidersFile, claudeSettingsFile, mcpFileVars, skillDirs >>]_vars

\* toggles of unlisted ids were refused for both services, with servers configured
C31_Witness ==
  /\ lastReq.type = "toggleCodexMcpServer"
  /\ lastReq.wasEnabled = "none"
  /\ lastOut = << Envelope("error", << >>, lastReq.requestId) >>
  /\ codexConfigToml # << >>
  /\ getCodexMcpServers(Files) # << >>
  /\ getClaudeMcpServers(Files, WorkspaceRoot) # << >>

(***************************************************************************)
(* The children of the supervisor                                          *)
(***************************************************************************)
\* the children that were spawned, received no signal and have not exited
aliveChildren == {p \in Procs : procState[p] = "alive"}

\* C32: whatever the order of start(), stop(), restart(), exit events and
\* restart timers, at most one child spawned by the supervisor is alive.
C32_AtMostOneChildAlive == Cardinality(aliveChildren) <= 1

\* the supervisor holds a child whose exit event has not been delivered
holdsLiveChild == _process # 0 /\ procState[_process] \in {"alive", "killed"}

\* C33: isRunning is true exactly when the supervisor holds a child process
\* that has not exited.
C33_IsRunningIffChildHeld == _isRunning <=> holdsLiveChild

\* C34: the 'failed to start' error is shown only by the exit handler of a
\* child that exited on its own with a non-zero code after _maxRestarts
\* restarts in a row had been used up; the exit of a child that stop() killed
\* does not show it.
C34_ErrorOnlyAfterBudgetExhausted ==
  [][errorShown' # errorShown => (lastAct' = "exit" /\ crashes' > _maxRestarts)]_vars

(***************************************************************************)
(* console.log between sendMessage requests                                *)
(***************************************************************************)
\* a sendMessage request whose SDK call has neither returned nor thrown
inFlight(r) == pc[r] \in {"claude", "codex"}

\* C35: whenever no sendMessage request is in flight, console.log is the
\* original writer, not the interceptor of any request.
C35_ConsoleLogRestored == (\A r \in Reqs : ~inFlight(r)) => consoleLog = 0


\* ------------------------------------------------------------------------
\* The other MCP servers of a service
\* ------------------------------------------------------------------------

McpChangingTypes ==
  McpWritingTypes \cup {"addCodexMcpServer", "updateCodexMcpServer",
                        "deleteCodexMcpServer", "toggleCodexMcpServer"}

\* what getMcpServers / getCodexMcpServers of the service of the type returns
listedServers(type, files) ==
  IF type \in CodexMcpTypes THEN getCodexMcpServers(files)
  ELSE getClaudeMcpServers(files, WorkspaceRoot)

\* the entries of a list whose id is not the given one
othersOf(servers, id) == {servers[i] : i \in {j \in 1..Len(servers) : servers[j].id # id}}

\* C36: adding, updating, toggling or deleting one MCP server leaves every
\* other server that the service listed before the operation listed with
\* the same definition after it.
C36_OtherServersUnchanged ==
  [][lastReq'.type \in McpChangingTypes =>
       othersOf(listedServers(lastReq'.type, Files), lastReq'.id)
         \subseteq othersOf(listedServers(lastReq'.type, Files'), lastReq'.id)]_vars


\* ------------------------------------------------------------------------
\* The two reports of the active Claude provider
\* ------------------------------------------------------------------------

\* the providerId of the currentClaudeConfigLoaded reply to a request now
currentConfigProviderId ==
  LET r == handleGetCurrentClaudeConfig([files |-> Files, out |-> << >>, threw |-> FALSE,
                                         merged |-> merged], 1)
  IN r.out[Len(r.out)].frags[1].providerId

\* C37: in every configuration state from process start on, the providerId
\* that getCurrentClaudeConfig reports is the active id that getProviders and
\* getActiveProvider use to flag the active Claude provider.
C37_OneActiveClaudeId ==
  serverStarted => currentConfigProviderId = getClaudeProvidersWithActiveFlag(Files).activeId


\* ------------------------------------------------------------------------
\* The selected agent
\* ------------------------------------------------------------------------

AgentChangingTypes == {"addAgent", "updateAgent", "deleteAgent", "setSelectedAgent"}

\* no id is stored: null, or no selectedAgentId at all
isNullId(id) == id \in {NullId, NoId}

\* C38: after any sequence of addAgent, updateAgent, deleteAgent and
\* setSelectedAgent operations the stored selectedAgentId is null or the id
\* of an agent present in the agents map.
C38_SelectedAgentExists ==
  (agentReq.type \in AgentChangingTypes /\ agentFile # << >>) =>
    LET config == agentFile[1]
    IN \/ isNullId(config.selectedAgentId)
       \/ /\ config.selectedAgentId.t = "string"
          /\ config.selectedAgentId.v \in DOMAIN config.agents.map


\* ------------------------------------------------------------------------
\* The rollups of the usage statistics
\* ------------------------------------------------------------------------

RECURSIVE totalFrom(_, _, _)
totalFrom(numbers, lo, hi) ==
  IF lo > hi THEN 0
  ELSE IF lo = hi THEN numbers[lo]
  ELSE totalFrom(numbers, lo, (lo + hi) \div 2) + totalFrom(numbers, (lo + hi) \div 2 + 1, hi)

totalOf(numbers) == totalFrom(numbers, 1, Len(numbers))

\* the sums over the entries of the per-day rollup
dailySums(dailyUsage) ==
  [sessions |-> totalOf([i \in 1..Len(dailyUsage) |-> dailyUsage[i].sessions]),
   cost |-> totalOf([i \in 1..Len(dailyUsage) |-> dailyUsage[i].cost]),
   usage |-> [k \in DOMAIN createUsageData |->
                totalOf([i \in 1..Len(dailyUsage) |-> dailyUsage[i].usage[k]])]]

\* the sums over the entries of the per-model rollup, under the names of totalUsage
modelSums(byModel) ==
  LET sum(field) == totalOf([i \in 1..Len(byModel) |-> byModel[i][field]])
  IN [sessions |-> sum("sessionCount"),
      cost |-> sum("totalCost"),
      usage |-> [inputTokens |-> sum("inputTokens"), outputTokens |-> sum("outputTokens"),
                 cacheWriteTokens |-> sum("cacheCreationTokens"),
                 cacheReadTokens |-> sum("cacheReadTokens"),
                 totalTokens |-> sum("totalTokens")]]

totalsReported(stats) ==
  [sessions |-> stats.totalSessions, cost |-> stats.estimatedCost, usage |-> stats.totalUsage]

\* C39: in the statistics of either provider the sums of sessions, cost and
\* each token counter over the per-day rollup are totalSessions, estimatedCost
\* and totalUsage, and so are the sums over the per-model rollup.
C39_RollupsSumToTotals ==
  applied = "getUsageStatistics" =>
    /\ dailySums(returned.dailyUsage) = totalsReported(returned)
    /\ modelSums(returned.byModel) = totalsReported(returned)


\* ------------------------------------------------------------------------
\* The two families in the canonical store
\* ------------------------------------------------------------------------

ClaudeProviderOps == {"addProvider", "updateProvider", "switchProvider", "deleteProvider"}

CodexProviderOps == {"addCodexProvider", "updateCodexProvider", "switchCodexProvider",
                     "deleteCodexProvider"}

\* C40: every Codex provider operation (add, update, switch, delete) leaves the
\* Claude family's providers map and current pointer in the canonical store
\* unchanged, and every Claude provider operation leaves the Codex family's
\* providers map and current pointer unchanged.
C40_FamiliesIndependent ==
  [][/\ lastReq'.type \in CodexProviderOps => codemossConfig' = codemossConfig
     /\ lastReq'.type \in ClaudeProviderOps => codexConfig' = codexConfig]_vars

\* deleteCodexProvider removed the active Codex provider c1 and cleared the
\* Codex pointer while the Claude family holds the provider p1 as current
C40_Witness ==
  /\ lastReq.type = "deleteCodexProvider"
  /\ lastReq.id = "c1"
  /\ lastReq.wasActive
  /\ "c1" \notin DOMAIN codexConfig.providers
  /\ codexConfig.current = ""
  /\ codemossConfig.current = "p1"
  /\ "p1" \in DOMAIN codemossConfig.providers

====
